---- MODULE Spec2Model ----
(***************************************************************************)
(* Event distribution core of api/src/webhooks.py: the EventBus            *)
(* (subscribe / unsubscribe / publish) and the WebhookManager (endpoint    *)
(* registry, handle_event, send_webhook with its retry loop and request    *)
(* signing).                                                               *)
(*                                                                         *)
(* The program runs on one asyncio event loop.  An action of this model is *)
(* the code that runs between two suspension points of a coroutine: the    *)
(* suspension points of the webhook path are the HTTP request of           *)
(* session.post (awaiting the response) and asyncio.sleep.                 *)
(***************************************************************************)
EXTENDS Integers, Sequences, FiniteSets, TLC

(***************************************************************************)
(* Bounds of the model.                                                    *)
(***************************************************************************)
MaxPublish == 1      \* publish calls in one behaviour
MaxSlots == 3        \* insertions into the endpoints dict in one behaviour
MaxRetry == 3        \* largest retry_count of a registered endpoint
MaxSubscribe == 3    \* client callbacks subscribed to one event type
MaxProducers == 2    \* tasks that publish concurrently
MaxOver == 2         \* events published beyond the capacity of the history
MaxAttempts == 3      \* calls of send_notification on one notification
MaxListed == 2        \* notifications created in one behaviour
MaxEvents == 3       \* events published before the history is queried

(***************************************************************************)
(* Optional[...] values: None is the empty sequence, a value x is <<x>>.   *)
(***************************************************************************)
None == <<>>
Some(x) == <<x>>

\* Python truthiness of an Optional[str]: None and "" are falsy.
TruthyStr(o) == o # None /\ o[1] # ""

(***************************************************************************)
(* EventType (the enum's values).                                          *)
(***************************************************************************)
EventType ==
    { "project.created", "project.updated", "project.deleted",
      "block.added", "block.updated", "block.removed",
      "proposal.generated", "proposal.approved", "proposal.rejected",
      "pricing.calculated", "configuration.changed",
      "user.registered", "user.login", "system.error", "api.call" }

\* The event types the model publishes and registers for.
PubTypes == {"project.updated", "user.login"}

(***************************************************************************)
(* Event: the dataclass, as built by emit_event.  data is an ordered       *)
(* mapping, modelled as a sequence of <<key, value>> pairs of strings.     *)
(***************************************************************************)
EventId(p) == "e" \o ToString(p)

Event(p, type, data) ==
    [ id         |-> EventId(p),
      type       |-> type,
      source     |-> "api",
      timestamp  |-> "2024-01-01T00:00:0" \o ToString(p),
      data       |-> data,
      user_id    |-> None,
      project_id |-> None,
      metadata   |-> None ]

EventData == { <<>>, << <<"project_name", "P">> >> }

\* An entry of data is <<key, value>>, value being a string, or
\* <<key, value, "int">>, value being an integer.
IsInt(entry) == Len(entry) = 3

\* data.get(key, default): the entry of key in an ordered mapping is the
\* last one with that key; <<>> when key is absent.
Lookup(data, key) ==
    LET S == {i \in 1..Len(data) : data[i][1] = key}
    IN IF S = {} THEN <<>> ELSE data[CHOOSE i \in S : \A j \in S : j <= i]

DataGet(data, key, default) ==
    IF Lookup(data, key) = <<>> THEN default ELSE Lookup(data, key)[2]

(***************************************************************************)
(* json.dumps of the webhook payload, with the separators given.           *)
(***************************************************************************)
JsonString(s) == "\"" \o s \o "\""

JsonOptional(o) == IF o = None THEN "null" ELSE JsonString(o[1])

RECURSIVE JsonItems(_, _, _)
\* pairs: a sequence of <<key, serialized value>>.
JsonItems(pairs, item_sep, key_sep) ==
    IF pairs = <<>> THEN ""
    ELSE JsonString(pairs[1][1]) \o key_sep \o pairs[1][2]
         \o (IF Len(pairs) > 1
             THEN item_sep \o JsonItems(Tail(pairs), item_sep, key_sep)
             ELSE "")

JsonObject(pairs, item_sep, key_sep) ==
    "{" \o JsonItems(pairs, item_sep, key_sep) \o "}"

JsonValue(entry) == IF IsInt(entry) THEN ToString(entry[2]) ELSE JsonString(entry[2])

JsonData(data, item_sep, key_sep) ==
    JsonObject([i \in 1..Len(data) |-> <<data[i][1], JsonValue(data[i])>>],
               item_sep, key_sep)

\* payload = {"event": {id, type, source, timestamp, data, user_id,
\* project_id, metadata}}
json_dumps(event, item_sep, key_sep) ==
    JsonObject(
      << <<"event",
           JsonObject(
             << <<"id", JsonString(event.id)>>,
                <<"type", JsonString(event.type)>>,
                <<"source", JsonString(event.source)>>,
                <<"timestamp", JsonString(event.timestamp)>>,
                <<"data", JsonData(event.data, item_sep, key_sep)>>,
                <<"user_id", JsonOptional(event.user_id)>>,
                <<"project_id", JsonOptional(event.project_id)>>,
                <<"metadata", JsonOptional(event.metadata)>> >>,
             item_sep, key_sep)>> >>,
      item_sep, key_sep)

\* payload_str = json.dumps(payload, separators=(',', ':'))
PayloadStr(event) == json_dumps(event, ",", ":")

\* The body of session.post(..., json=payload): the client serializes the
\* payload with json.dumps and its default separators (', ', ': ').
RequestBody(event) == json_dumps(event, ", ", ": ")

\* hmac.new(key, msg, sha256).hexdigest(): a keyed hash, kept symbolic; two
\* digests are equal iff their keys and their messages are.
HmacSha256Hex(key, msg) == "hmac-sha256[" \o key \o "](" \o msg \o ")"

(***************************************************************************)
(* WebhookEndpoint: the dataclass.  headers is a mapping from header names *)
(* to values; None and {} are both the empty mapping (both are falsy).     *)
(***************************************************************************)
NoHeaders == <<>>

WebhookEndpoint(id, events, active, secret, headers, retry_count) ==
    [ id          |-> id,
      events      |-> events,
      active      |-> active,
      secret      |-> secret,
      headers     |-> headers,
      retry_count |-> retry_count ]

NoEndpoint == WebhookEndpoint("", {}, FALSE, None, NoHeaders, 0)

(***************************************************************************)
(* WebhookManager.endpoints: a Python dict keyed by endpoint id.  A dict   *)
(* keeps its entries in insertion order in an array of slots; deleting a   *)
(* key leaves an empty slot, inserting a new key appends a slot, assigning *)
(* to an existing key replaces the value in its slot.                      *)
(***************************************************************************)
EmptySlot == [live |-> FALSE, value |-> NoEndpoint]

DictIndex(slots, id) ==
    LET S == {i \in 1..Len(slots) : slots[i].live /\ slots[i].value.id = id}
    IN IF S = {} THEN 0 ELSE CHOOSE i \in S : TRUE

DictUsed(slots) == Cardinality({i \in 1..Len(slots) : slots[i].live})

DictSet(slots, value) ==
    IF DictIndex(slots, value.id) # 0
    THEN [slots EXCEPT ![DictIndex(slots, value.id)].value = value]
    ELSE Append(slots, [live |-> TRUE, value |-> value])

DictDel(slots, id) == [slots EXCEPT ![DictIndex(slots, id)] = EmptySlot]

(***************************************************************************)
(* The iterator of `for endpoint in self.endpoints.values()`: it holds     *)
(* the size of the dict when it was created (di_used), the next slot to    *)
(* look at (di_pos) and the number of values still expected (len), and it  *)
(* fails with a RuntimeError when the dict has changed size, or when it    *)
(* finds a value it does not expect any more.                              *)
(***************************************************************************)
DictIter(slots) ==
    [di_used |-> DictUsed(slots), di_pos |-> 1, len |-> DictUsed(slots)]

IterNext(it, slots) ==
    LET rest == {i \in it.di_pos..Len(slots) : slots[i].live}
        i == IF rest = {} THEN 0 ELSE CHOOSE j \in rest : \A k \in rest : j <= k
    IN IF it.di_used # DictUsed(slots)
       THEN [kind |-> "RuntimeError", value |-> NoEndpoint, it |-> it]
       ELSE IF rest = {}
       THEN [kind |-> "StopIteration", value |-> NoEndpoint, it |-> it]
       ELSE IF it.len = 0
       THEN [kind |-> "RuntimeError", value |-> NoEndpoint, it |-> it]
       ELSE [kind |-> "value", value |-> slots[i].value,
             it |-> [it EXCEPT !.di_pos = i + 1, !.len = it.len - 1]]

(***************************************************************************)
(* The headers of a webhook request (send_webhook).                        *)
(***************************************************************************)
\* The keys d has already keep their values.
DictUpdate_KeepsOld(d, other) == d @@ other

\* d.update(other): the keys of other win.
DictUpdate(d, other) == other @@ d

BaseHeaders ==
    ("Content-Type" :> "application/json")
    @@ ("User-Agent" :> "Configurador-3D-TSI-Webhook/1.0")

Signature(endpoint, event) ==
    "sha256=" \o HmacSha256Hex(endpoint.secret[1], PayloadStr(event))

\* `if endpoint.secret:` guards the signature.
HasSecret(endpoint) == TruthyStr(endpoint.secret)

\* The signature attached without the test of endpoint.secret.
RequestHeaders_AlwaysSign(endpoint, event) ==
    LET merged == IF DOMAIN endpoint.headers # {}
                  THEN DictUpdate(BaseHeaders, endpoint.headers)
                  ELSE BaseHeaders
        key == IF endpoint.secret = None THEN "" ELSE endpoint.secret[1]
    IN DictUpdate(merged, "X-Webhook-Signature" :>
                    ("sha256=" \o HmacSha256Hex(key, PayloadStr(event))))

RequestHeaders(endpoint, event) ==
    LET merged == IF DOMAIN endpoint.headers # {}
                  THEN DictUpdate(BaseHeaders, endpoint.headers)
                  ELSE BaseHeaders
    IN IF HasSecret(endpoint)
       THEN DictUpdate(merged, "X-Webhook-Signature" :> Signature(endpoint, event))
       ELSE merged

(***************************************************************************)
(* State.                                                                  *)
(*   subscribers    EventBus.subscribers: event type -> list of callbacks  *)
(*   event_history  EventBus.event_history (the events, oldest first)      *)
(*   endpoints      WebhookManager.endpoints (the dict's slots)            *)
(*   session        WebhookManager.session: "none", "open" or "closed"     *)
(*   pubs           the publish calls: p -> [pc, event, tasks, subs], subs *)
(*                  being the subscriber list of the event's type when the *)
(*                  call began                                             *)
(*   hev            the handle_event coroutine of publish p: where it is   *)
(*                  (pc), its dict iterator, the endpoint and the attempt  *)
(*                  of the delivery it is in, and the endpoints that       *)
(*                  matched the event when it started (targets)            *)
(*   wire           what send_webhook did for publish p, in time order:   *)
(*                  the requests posted, the outcomes, the sleeps and its  *)
(*                  final log lines                                        *)
(*   calls          the callbacks invoked by publish p, in time order      *)
(*   emitted        the number of publish calls begun so far                *)
(*   query          the last call of get_history: its arguments and the    *)
(*                  list it returned                                       *)
(*   notifications  NotificationManager.notifications                      *)
(*   connections    WebSocketManager.connections, in insertion order: a    *)
(*                  sequence of [user, ws]                                 *)
(*   bcast          the broadcast_event coroutine of publish p: where it   *)
(*                  is (pc), the users still to serve and the connection   *)
(*                  of the send in flight                                  *)
(*   pushed         the send_text calls of publish p, in time order        *)
(***************************************************************************)
VARIABLES subscribers, event_history, endpoints, session, pubs, hev, wire, calls,
          emitted, query, notifications, connections, bcast, pushed, asked, direct,
          unsubscribed, handed, snapshot

\* What the direct callers of the NotificationManager hold: the last call
\* of get_event_recipients, and the last call of send_notification or of
\* send_custom_notification; the last call of unsubscribe; and, for each
\* publish, the event as it was when it was handed to publish and the
\* connection registry as it was when its broadcast_event started.
callers == <<asked, direct, unsubscribed, handed, snapshot>>

dispatchers == <<notifications, connections, bcast, pushed, callers>>

vars == <<subscribers, event_history, endpoints, session, pubs, hev, wire, calls,
          emitted, query, notifications, connections, bcast, pushed, asked, direct,
          unsubscribed, handed, snapshot>>

Publishes == 1..MaxPublish

\* The tasks that call emit_event, each one call after the other.
Producers == 1..MaxProducers

\* The publish calls that can be in progress at one time.
Slots == Publishes \cup Producers

max_history == 1000

(***************************************************************************)
(* Callbacks.  The three dispatchers' handlers are coroutine functions;    *)
(* the other four stand for a client's callbacks: a plain function or a    *)
(* coroutine function, returning or raising an Exception.                  *)
(***************************************************************************)
ClientHandlers == {"sync_ok", "sync_raise", "coro_ok", "coro_raise"}

\* Client callbacks that call event_bus.unsubscribe(event.type, ...) when
\* they are invoked: a plain function removing itself, a plain function
\* removing the callback sync_ok, a coroutine function removing itself.
UnsubscribingHandlers == {"sync_unsub_self", "sync_unsub_ok", "coro_unsub_self"}

\* asyncio.iscoroutinefunction(callback)
IsCoroutineFunction(h) ==
    h \in {"handle_event", "handle_notification_event", "broadcast_event",
           "coro_ok", "coro_raise", "coro_unsub_self"}

HandlerRaises(h) == h \in {"sync_raise", "coro_raise"}

\* unsubscribe(event_type, callback): list.remove drops the first
\* occurrence; the ValueError of an absent callback is swallowed.
RemoveFirst(list, h) ==
    LET S == {i \in 1..Len(list) : list[i] = h}
        i == IF S = {} THEN 0 ELSE CHOOSE j \in S : \A k \in S : j <= k
    IN IF i = 0 THEN list
       ELSE SubSeq(list, 1, i - 1) \o SubSeq(list, i + 1, Len(list))

\* subscribe(event_type, callback) on the registry subs, a dict from types
\* to lists: the type gets a list if it has none.
subscribe(subs, event_type, callback) ==
    IF event_type \in DOMAIN subs
    THEN [subs EXCEPT ![event_type] = Append(@, callback)]
    ELSE subs @@ (event_type :> <<callback>>)

\* list.remove raises ValueError for an absent callback, and the lookup of
\* the list KeyError for a type without list.
unsubscribe_NoCatch(subs, event_type, callback) ==
    IF event_type \notin DOMAIN subs THEN [exc |-> "KeyError", subs |-> subs]
    ELSE IF \A i \in 1..Len(subs[event_type]) : subs[event_type][i] # callback
    THEN [exc |-> "ValueError", subs |-> subs]
    ELSE [exc |-> "none",
          subs |-> [subs EXCEPT ![event_type] = RemoveFirst(@, callback)]]

\* unsubscribe(event_type, callback): [exc, subs].
unsubscribe(subs, event_type, callback) ==
    IF event_type \in DOMAIN subs
    THEN [exc |-> "none",
          subs |-> [subs EXCEPT ![event_type] = RemoveFirst(@, callback)]]
    ELSE [exc |-> "none", subs |-> subs]

\* The subscriber list of the event's type after callback h has run.
CallEffect(h, list) ==
    IF h \in {"sync_unsub_self", "coro_unsub_self"} THEN RemoveFirst(list, h)
    ELSE IF h = "sync_unsub_ok" THEN RemoveFirst(list, "sync_ok")
    ELSE list

\* One entry of the log of invocations: callback h, called by publish p
\* with event, returned, raised or started.
Call(p, h, res, event) == [p |-> p, h |-> h, res |-> res, event |-> event]

(***************************************************************************)
(* EventBus.publish, up to its await: the history and the loop over the    *)
(* callbacks of the event's type.                                          *)
(***************************************************************************)
\* The append without the eviction.
HistoryAppend_NoEvict(history, event) == Append(history, event)

\* The eviction as soon as the capacity is reached, not when it is exceeded.
HistoryAppend_EvictAtCapacity(history, event) ==
    LET h == Append(history, event)
    IN IF Len(h) >= max_history THEN Tail(h) ELSE h

\* The new event put first, not last.
HistoryAppend_Insert0(history, event) ==
    LET h == <<event>> \o history
    IN IF Len(h) > max_history THEN Tail(h) ELSE h

\* self.event_history.append(event); pop(0) above max_history
HistoryAppend(history, event) ==
    LET h == Append(history, event)
    IN IF Len(h) > max_history THEN Tail(h) ELSE h

\* The call without its try/except: the exception leaves publish.
InvokeSync_NoTry(h) == IF HandlerRaises(h) THEN "propagated" ELSE "returned"

\* try: callback(event) / except Exception: logger.error(...)
\* "returned", "logged" (raised and caught) or "propagated" (raised out of
\* publish).
InvokeSync(h) == IF HandlerRaises(h) THEN "logged" ELSE "returned"

(***************************************************************************)
(* EventBus.get_history.                                                   *)
(***************************************************************************)
\* list[start:], with Python's reading of a negative start and of a start
\* beyond the end.
SliceFrom(list, start) ==
    LET from == IF start < 0
                THEN (IF Len(list) + start < 0 THEN 0 ELSE Len(list) + start)
                ELSE (IF start > Len(list) THEN Len(list) ELSE start)
    IN SubSeq(list, from + 1, Len(list))

\* `if event_type:` a member of the enum is always true.
TruthyEnum(o) == o # None

\* [e for e in filtered_events if e.type == event_type]
FilterType(events, event_type) ==
    SelectSeq(events, LAMBDA e : e.type = event_type[1])

\* [e for e in filtered_events if e.user_id == user_id]
FilterUser(events, user_id) ==
    SelectSeq(events, LAMBDA e : e.user_id = user_id)

\* [e for e in filtered_events if e.project_id == project_id]
FilterProject(events, project_id) ==
    SelectSeq(events, LAMBDA e : e.project_id = project_id)

get_history(history, event_type, user_id, project_id, limit) ==
    LET f1 == IF TruthyEnum(event_type) THEN FilterType(history, event_type) ELSE history
        f2 == IF TruthyStr(user_id) THEN FilterUser(f1, user_id) ELSE f1
        f3 == IF TruthyStr(project_id) THEN FilterProject(f2, project_id) ELSE f2
    IN SliceFrom(f3, 0 - limit)

RECURSIVE NotifyLoop(_, _, _, _)
\* for callback in self.subscribers[event.type]: the loop reads the list
\* itself, by position, so a callback that changes the list changes what
\* the loop finds at the next position.  i is the position of the callback
\* to call; acc is [calls, tasks, raised, list, event], list being the
\* subscriber list when the loop ends.
NotifyLoop(list, i, p, acc) ==
    IF i > Len(list) THEN [acc EXCEPT !.list = list]
    ELSE IF IsCoroutineFunction(list[i])
    THEN NotifyLoop(list, i + 1, p,
            [acc EXCEPT !.tasks =
                Append(@, [h |-> list[i], st |-> "pending", res |-> "none"])])
    ELSE LET r == InvokeSync(list[i])
             acc1 == [acc EXCEPT !.calls = Append(@, Call(p, list[i], r, acc.event))]
             list1 == CallEffect(list[i], list)
         IN IF r = "propagated"
            THEN [acc1 EXCEPT !.raised = TRUE, !.list = list1]
            ELSE NotifyLoop(list1, i + 1, p, acc1)

\* gather without return_exceptions: the first exception of a task is
\* raised by the await.
GatherRaises_FirstException(tasks) == \E i \in 1..Len(tasks) : tasks[i].res = "exc"

\* await asyncio.gather(*tasks, return_exceptions=True): whether the await
\* raises, given the finished tasks.
GatherRaises(tasks) == FALSE

TaskIndex(tasks, h) ==
    LET S == {i \in 1..Len(tasks) : tasks[i].h = h}
    IN IF S = {} THEN 0 ELSE CHOOSE i \in S : \A j \in S : i <= j

\* The coroutines awaited one after the other: a task starts when the ones
\* before it have ended.
MayStart_AfterEarlierDone(tasks, i) ==
    /\ tasks[i].st = "pending"
    /\ \A j \in 1..(i - 1) : tasks[j].st = "done"

\* Tasks take their first step in the order gather created them.
MayStart(tasks, i) ==
    /\ tasks[i].st = "pending"
    /\ \A j \in 1..(i - 1) : tasks[j].st # "pending"

(***************************************************************************)
(* WebhookManager.handle_event and send_webhook.                           *)
(***************************************************************************)
WireEntry(op, p, endpoint, k, n, headers, body) ==
    [op |-> op, p |-> p, ep |-> endpoint.id, k |-> k, n |-> n,
     headers |-> headers, body |-> body]

Log(c, op, p, k, n) ==
    [c EXCEPT !.wire = Append(@, WireEntry(op, p, c.t.endpoint, k, n, NoHeaders, ""))]

\* if endpoint.active and event.type in endpoint.events
Matches(endpoint, event) == endpoint.active /\ event.type \in endpoint.events

\* A loop that runs once too often.
Attempts_OneMore(endpoint) == endpoint.retry_count + 1

\* for attempt in range(endpoint.retry_count)
Attempts(endpoint) == endpoint.retry_count

\* The success range with its upper end included.
IsSuccess_Upto300(status) == 200 <= status /\ status <= 300

\* if 200 <= response.status < 300
IsSuccess(status) == 200 <= status /\ status < 300

\* if attempt < endpoint.retry_count - 1: await asyncio.sleep(2 ** attempt)
SleepsAfter(endpoint, attempt) == attempt < endpoint.retry_count - 1

Backoff(attempt) == 2 ^ attempt

RECURSIVE HandleLoop(_, _, _, _, _)
RECURSIVE Attempt(_, _, _, _, _, _)

\* The except branch of attempt k: the error is logged, then either the
\* coroutine sleeps or the loop goes on to attempt k + 1.
OnException(c, p, event, slots, sess, k) ==
    IF SleepsAfter(c.t.endpoint, k)
    THEN [Log(c, "sleep", p, k, Backoff(k)) EXCEPT !.t.pc = "sleeping", !.t.attempt = k]
    ELSE Attempt(c, p, event, slots, sess, k + 1)

\* The retry loop from attempt k on: session.post, which suspends the
\* coroutine until the response (a closed session raises at once); after
\* the last attempt, the final error line and the return to handle_event.
Attempt(c, p, event, slots, sess, k) ==
    IF k >= Attempts(c.t.endpoint)
    THEN HandleLoop(Log(c, "abandoned", p, k, 0), p, event, slots, sess)
    ELSE LET posted ==
               [c EXCEPT !.wire = Append(@,
                   WireEntry("post", p, c.t.endpoint, k, 0,
                             RequestHeaders(c.t.endpoint, event),
                             RequestBody(event)))]
         IN IF sess = "closed"
            THEN OnException(Log(posted, "error", p, k, 0), p, event, slots, sess, k)
            ELSE [posted EXCEPT !.t.pc = "posting", !.t.attempt = k]

\* The attempts are made without the test of the session.
send_webhook_NoSessionTest(c, p, endpoint, event, slots, sess) ==
    Attempt([c EXCEPT !.t.endpoint = endpoint], p, event, slots, sess, 0)

send_webhook(c, p, endpoint, event, slots, sess) ==
    LET c1 == [c EXCEPT !.t.endpoint = endpoint]
    IN IF sess = "none"
       THEN HandleLoop(Log(c1, "no_session", p, 0, 0), p, event, slots, sess)
       ELSE Attempt(c1, p, event, slots, sess, 0)

\* handle_event from the next step of its for loop, up to the next
\* suspension or to its end.
HandleLoop(c, p, event, slots, sess) ==
    LET r == IterNext(c.t.it, slots)
        c1 == [c EXCEPT !.t.it = r.it]
    IN IF r.kind = "RuntimeError" THEN [c EXCEPT !.t.pc = "raised"]
       ELSE IF r.kind = "StopIteration" THEN [c EXCEPT !.t.pc = "done"]
       ELSE IF Matches(r.value, event)
       THEN send_webhook(c1, p, r.value, event, slots, sess)
       ELSE HandleLoop(c1, p, event, slots, sess)

\* The response of the attempt in flight: a status, or a timeout or a
\* transport error raised by the client.
OnResponse(c, p, event, slots, sess, outcome) ==
    LET k == c.t.attempt
    IN IF outcome.kind = "status"
       THEN IF IsSuccess(outcome.status)
            THEN HandleLoop(Log(Log(c, "status", p, k, outcome.status), "sent", p, k, 0),
                            p, event, slots, sess)
            ELSE Attempt(Log(c, "status", p, k, outcome.status),
                         p, event, slots, sess, k + 1)
       ELSE OnException(Log(c, outcome.kind, p, k, 0), p, event, slots, sess, k)

(***************************************************************************)
(* NotificationManager: the templates (load_default_templates).  A         *)
(* template is the sequence of the literal texts and of the replacement    *)
(* fields {name} or {name:spec} of its format string.                      *)
(***************************************************************************)
Lit(text) == [lit |-> text, field |-> "", spec |-> ""]
Field(name, spec) == [lit |-> "", field |-> name, spec |-> spec]

ProjectCreatedSubject ==
    << Lit("Novo projeto criado: "),
       Field("project_name", "") >>

ProjectCreatedContent ==
    << Lit("\n"),
       Lit("                Olá "),
       Field("user_name", ""),
       Lit(",\n"),
       Lit("                \n"),
       Lit("                Seu projeto \""),
       Field("project_name", ""),
       Lit("\" foi criado com sucesso.\n"),
       Lit("                \n"),
       Lit("                Detalhes:\n"),
       Lit("                - ID do Projeto: "),
       Field("project_id", ""),
       Lit("\n"),
       Lit("                - Data de Criação: "),
       Field("created_at", ""),
       Lit("\n"),
       Lit("                - Aplicação: "),
       Field("application", ""),
       Lit("\n"),
       Lit("                \n"),
       Lit("                Você pode acessar seu projeto através do configurador.\n"),
       Lit("                \n"),
       Lit("                Atenciosamente,\n"),
       Lit("                Equipe TSI\n"),
       Lit("                ") >>

ProposalGeneratedSubject ==
    << Lit("Proposta gerada: "),
       Field("proposal_number", "") >>

ProposalGeneratedContent ==
    << Lit("\n"),
       Lit("                Olá "),
       Field("user_name", ""),
       Lit(",\n"),
       Lit("                \n"),
       Lit("                Uma nova proposta foi gerada para o projeto \""),
       Field("project_name", ""),
       Lit("\".\n"),
       Lit("                \n"),
       Lit("                Detalhes da Proposta:\n"),
       Lit("                - Número: "),
       Field("proposal_number", ""),
       Lit("\n"),
       Lit("                - Valor Total: R$ "),
       Field("total_value", ",.2f"),
       Lit("\n"),
       Lit("                - Válida até: "),
       Field("valid_until", ""),
       Lit("\n"),
       Lit("                \n"),
       Lit("                A proposta está disponível para download no sistema.\n"),
       Lit("                \n"),
       Lit("                Atenciosamente,\n"),
       Lit("                Equipe TSI\n"),
       Lit("                ") >>

UserRegisteredSubject ==
    << Lit("Bem-vindo ao Configurador 3D TSI") >>

UserRegisteredContent ==
    << Lit("\n"),
       Lit("                Olá "),
       Field("user_name", ""),
       Lit(",\n"),
       Lit("                \n"),
       Lit("                Bem-vindo ao Configurador 3D TSI!\n"),
       Lit("                \n"),
       Lit("                Sua conta foi criada com sucesso. Agora você pode:\n"),
       Lit("                - Criar projetos de sistemas industriais\n"),
       Lit("                - Configurar equipamentos em 3D\n"),
       Lit("                - Gerar propostas comerciais\n"),
       Lit("                - Calcular preços em tempo real\n"),
       Lit("                \n"),
       Lit("                Comece criando seu primeiro projeto!\n"),
       Lit("                \n"),
       Lit("                Atenciosamente,\n"),
       Lit("                Equipe TSI\n"),
       Lit("                ") >>

SystemErrorSubject ==
    << Lit("Alerta do Sistema - "),
       Field("error_type", "") >>

SystemErrorContent ==
    << Lit("\n"),
       Lit("                Alerta do Sistema Configurador 3D TSI\n"),
       Lit("                \n"),
       Lit("                Tipo de Erro: "),
       Field("error_type", ""),
       Lit("\n"),
       Lit("                Timestamp: "),
       Field("timestamp", ""),
       Lit("\n"),
       Lit("                Usuário: "),
       Field("user_id", ""),
       Lit("\n"),
       Lit("                Projeto: "),
       Field("project_id", ""),
       Lit("\n"),
       Lit("                \n"),
       Lit("                Detalhes:\n"),
       Lit("                "),
       Field("error_details", ""),
       Lit("\n"),
       Lit("                \n"),
       Lit("                Este é um alerta automático do sistema.\n"),
       Lit("                ") >>

Templates ==
    [k \in {"project_created", "proposal_generated", "user_registered", "system_error"} |->
        CASE k = "project_created" ->
               [subject |-> ProjectCreatedSubject, content |-> ProjectCreatedContent]
          [] k = "proposal_generated" ->
               [subject |-> ProposalGeneratedSubject, content |-> ProposalGeneratedContent]
          [] k = "user_registered" ->
               [subject |-> UserRegisteredSubject, content |-> UserRegisteredContent]
          [] k = "system_error" ->
               [subject |-> SystemErrorSubject, content |-> SystemErrorContent]]

\* event.type.value.replace('.', '_')
TemplateKey(type) ==
    CASE type = "project.created" -> "project_created"
      [] type = "project.updated" -> "project_updated"
      [] type = "project.deleted" -> "project_deleted"
      [] type = "block.added" -> "block_added"
      [] type = "block.updated" -> "block_updated"
      [] type = "block.removed" -> "block_removed"
      [] type = "proposal.generated" -> "proposal_generated"
      [] type = "proposal.approved" -> "proposal_approved"
      [] type = "proposal.rejected" -> "proposal_rejected"
      [] type = "pricing.calculated" -> "pricing_calculated"
      [] type = "configuration.changed" -> "configuration_changed"
      [] type = "user.registered" -> "user_registered"
      [] type = "user.login" -> "user_login"
      [] type = "system.error" -> "system_error"
      [] type = "api.call" -> "api_call"

(***************************************************************************)
(* str.format with the template data as keyword arguments.                 *)
(***************************************************************************)
Pad3(m) ==
    IF m < 10 THEN "00" \o ToString(m)
    ELSE IF m < 100 THEN "0" \o ToString(m) ELSE ToString(m)

RECURSIVE GroupThousands(_)
\* The digits of n >= 0 with a comma between the groups of three.
GroupThousands(n) ==
    IF n < 1000 THEN ToString(n)
    ELSE GroupThousands(n \div 1000) \o "," \o Pad3(n % 1000)

\* format(value, spec) for the specs of the templates: "" and ",.2f".  The
\* spec ",.2f" formats a number and raises ValueError for a string.
FormatValue(entry, spec) ==
    IF spec = ""
    THEN [exc |-> "none", text |-> IF IsInt(entry) THEN ToString(entry[2]) ELSE entry[2]]
    ELSE IF IsInt(entry)
    THEN [exc |-> "none", text |-> GroupThousands(entry[2]) \o ".00"]
    ELSE [exc |-> "ValueError", text |-> ""]

RECURSIVE FormatParts(_, _, _, _)
\* The parts from the i-th on, appended to text: a field whose name is not
\* a key of fields raises KeyError.
FormatParts(parts, i, fields, text) ==
    IF i > Len(parts) THEN [exc |-> "none", text |-> text]
    ELSE IF parts[i].field = ""
    THEN FormatParts(parts, i + 1, fields, text \o parts[i].lit)
    ELSE IF Lookup(fields, parts[i].field) = <<>>
    THEN [exc |-> "KeyError", text |-> ""]
    ELSE LET v == FormatValue(Lookup(fields, parts[i].field), parts[i].spec)
         IN IF v.exc # "none" THEN v
            ELSE FormatParts(parts, i + 1, fields, text \o v.text)

Format(parts, fields) == FormatParts(parts, 1, fields, "")

\* event.timestamp.strftime("%d/%m/%Y %H:%M:%S"), kept symbolic.
Strftime(timestamp) == "strftime[%d/%m/%Y %H:%M:%S](" \o timestamp \o ")"

(***************************************************************************)
(* NotificationManager: get_event_recipients, create_notification,         *)
(* send_notification and handle_notification_event.  None of them awaits   *)
(* anything that suspends, so the handler runs in one step.                *)
(***************************************************************************)
Recipient(channel, address, name) ==
    [channel |-> channel, address |-> address, name |-> name]

\* The recipient taken from the owner's fields of the payload.
get_event_recipients_Owner(event) ==
    IF event.type \in {"user.registered", "project.created", "proposal.generated"}
    THEN << Recipient("email", DataGet(event.data, "user_email", ""),
                      DataGet(event.data, "user_name", "Usuário")) >>
    ELSE IF event.type = "system.error"
    THEN << Recipient("email", "admin@tsi.com.br", "Administrador") >>
    ELSE <<>>

\* A system error goes to the address its payload names, if it names one.
get_event_recipients_PayloadFirst(event) ==
    IF event.type = "user.registered"
    THEN << Recipient("email", DataGet(event.data, "email", ""),
                      DataGet(event.data, "full_name", "Usuário")) >>
    ELSE IF event.type \in {"project.created", "proposal.generated"}
    THEN << Recipient("email", DataGet(event.data, "user_email", ""),
                      DataGet(event.data, "user_name", "Usuário")) >>
    ELSE IF event.type = "system.error"
    THEN << Recipient("email", DataGet(event.data, "user_email", "admin@tsi.com.br"),
                      "Administrador") >>
    ELSE <<>>

get_event_recipients(event) ==
    IF event.type = "user.registered"
    THEN << Recipient("email", DataGet(event.data, "email", ""),
                      DataGet(event.data, "full_name", "Usuário")) >>
    ELSE IF event.type \in {"project.created", "proposal.generated"}
    THEN << Recipient("email", DataGet(event.data, "user_email", ""),
                      DataGet(event.data, "user_name", "Usuário")) >>
    ELSE IF event.type = "system.error"
    THEN << Recipient("email", "admin@tsi.com.br", "Administrador") >>
    ELSE <<>>

\* {**event.data, "timestamp": ..., "event_id": ..., "user_name": ...}
TemplateData(event, recipient) ==
    event.data \o << <<"timestamp", Strftime(event.timestamp)>>,
                     <<"event_id", event.id>>,
                     <<"user_name", recipient.name>> >>

\* Notification: the dataclass.  k numbers the notifications created.
Notification(k, event_id, channel, recipient, subject, content) ==
    [ id         |-> "n" \o ToString(k),
      event_id   |-> event_id,
      channel    |-> channel,
      recipient  |-> recipient,
      subject    |-> subject,
      content    |-> content,
      status     |-> "pending",
      attempts   |-> 0,
      created_at |-> Some("utcnow"),
      sent_at    |-> None ]

\* A field that is absent leaves the notification without text.
create_notification_KeepsOnKeyError(event, recipient, template_key, list) ==
    LET template == Templates[template_key]
        fields == TemplateData(event, recipient)
        subject == Format(template.subject, fields)
        content == Format(template.content, fields)
        failed == IF subject.exc # "none" THEN subject.exc ELSE content.exc
    IN IF failed \notin {"none", "KeyError"}
       THEN [exc |-> failed, created |-> FALSE, list |-> list]
       ELSE [exc |-> "none", created |-> TRUE,
             list |-> Append(list,
                        Notification(Len(list) + 1, event.id, recipient.channel,
                                     recipient.address, subject.text, content.text))]

\* create_notification: [exc, created, list].  exc is "none" or the
\* exception that leaves it (a KeyError is caught and logged); created tells
\* whether a Notification is returned, which is then the last of list.
create_notification(event, recipient, template_key, list) ==
    LET template == Templates[template_key]
        fields == TemplateData(event, recipient)
        subject == Format(template.subject, fields)
        content == Format(template.content, fields)
        failed == IF subject.exc # "none" THEN subject.exc ELSE content.exc
    IN IF failed = "KeyError"
       THEN [exc |-> "none", created |-> FALSE, list |-> list]
       ELSE IF failed # "none"
       THEN [exc |-> failed, created |-> FALSE, list |-> list]
       ELSE [exc |-> "none", created |-> TRUE,
             list |-> Append(list,
                        Notification(Len(list) + 1, event.id, recipient.channel,
                                     recipient.address, subject.text, content.text))]

NotificationChannel == {"email", "sms", "webhook", "websocket", "slack", "teams"}

\* Every channel has a sender.
ChannelSends_All(channel) == channel \in NotificationChannel

\* The channels send_notification has a sender for: send_email, send_sms,
\* send_slack.
ChannelSends(channel) == channel \in {"email", "sms", "slack"}

\* What awaiting the sender of a channel gives: send_email, send_sms and
\* send_slack log and return True.
SenderResult(channel) == "True"

\* datetime.utcnow() at the attempt given, kept symbolic.
UtcNow(attempt) == "utcnow@" \o ToString(attempt)

\* A channel without sender is logged and the call returns, the status
\* left as it was.
send_notification_ReturnsUnsupported(n, outcome) ==
    IF ~ChannelSends(n.channel)
    THEN [exc |-> "none", n |-> [n EXCEPT !.attempts = @ + 1]]
    ELSE IF outcome = "True"
    THEN [exc |-> "none",
          n |-> [n EXCEPT !.attempts = @ + 1, !.status = "sent",
                          !.sent_at = Some(UtcNow(n.attempts + 1))]]
    ELSE [exc |-> "none", n |-> [n EXCEPT !.attempts = @ + 1, !.status = "failed"]]

\* A notification is sent once: a later call does not reach the sender and
\* marks it failed.
send_notification_AttemptCap(n, outcome) ==
    LET success == IF ChannelSends(n.channel) /\ n.attempts = 0
                   THEN outcome ELSE "False"
    IN IF success = "True"
       THEN [exc |-> "none",
             n |-> [n EXCEPT !.attempts = @ + 1, !.status = "sent",
                             !.sent_at = Some(UtcNow(n.attempts + 1))]]
       ELSE [exc |-> "none", n |-> [n EXCEPT !.attempts = @ + 1, !.status = "failed"]]

\* send_notification(notification), outcome being what awaiting the sender
\* of its channel gives: [exc, n], n being the notification afterwards.
send_notification(n, outcome) ==
    LET success == IF ChannelSends(n.channel) THEN outcome ELSE "False"
    IN IF success = "True"
       THEN [exc |-> "none",
             n |-> [n EXCEPT !.attempts = @ + 1, !.status = "sent",
                             !.sent_at = Some(UtcNow(n.attempts + 1))]]
       ELSE [exc |-> "none", n |-> [n EXCEPT !.attempts = @ + 1, !.status = "failed"]]

RECURSIVE NotifyRecipients(_, _, _, _, _)
\* for recipient in recipients: [exc, list]
NotifyRecipients(event, recipients, i, template_key, list) ==
    IF i > Len(recipients) THEN [exc |-> "none", list |-> list]
    ELSE LET c == create_notification(event, recipients[i], template_key, list)
         IN IF c.exc # "none" THEN [exc |-> c.exc, list |-> c.list]
            ELSE IF c.created
            THEN LET sent == send_notification(c.list[Len(c.list)],
                                               SenderResult(recipients[i].channel))
                     list1 == [c.list EXCEPT ![Len(c.list)] = sent.n]
                 IN IF sent.exc # "none" THEN [exc |-> sent.exc, list |-> list1]
                    ELSE NotifyRecipients(event, recipients, i + 1, template_key, list1)
            ELSE NotifyRecipients(event, recipients, i + 1, template_key, c.list)

\* An event whose type has no template is reported to the administrator.
handle_notification_event_Default(event, list) ==
    IF TemplateKey(event.type) \in DOMAIN Templates
    THEN NotifyRecipients(event, get_event_recipients(event), 1,
                          TemplateKey(event.type), list)
    ELSE [exc |-> "none",
          list |-> Append(list,
                     send_notification(
                        Notification(Len(list) + 1, event.id, "email",
                                     "admin@tsi.com.br", event.type, ""),
                        SenderResult("email")).n)]

\* handle_notification_event(event): [exc, list], list being the
\* notifications afterwards.
handle_notification_event(event, list) ==
    IF TemplateKey(event.type) \in DOMAIN Templates
    THEN NotifyRecipients(event, get_event_recipients(event), 1,
                          TemplateKey(event.type), list)
    ELSE [exc |-> "none", list |-> list]

\* template_data is event.data itself, updated in place.
MergedEvent_Update(event, recipient) ==
    [event EXCEPT !.data = TemplateData(event, recipient)]

\* The event after `template_data = {**event.data, ...}`: the expression
\* builds a new dict and assigns nothing to the event or to its data.
MergedEvent(event, recipient) == event

RECURSIVE EventAfterRecipients(_, _, _, _)
\* The event after the loop over the recipients, in which each call of
\* create_notification merges; an exception ends the loop.
EventAfterRecipients(event, recipients, i, template_key) ==
    IF i > Len(recipients) THEN event
    ELSE LET c == create_notification(event, recipients[i], template_key, <<>>)
             merged == MergedEvent(event, recipients[i])
         IN IF c.exc # "none" THEN merged
            ELSE EventAfterRecipients(merged, recipients, i + 1, template_key)

\* The event after handle_notification_event(event).
NotifiedEvent(event) ==
    IF TemplateKey(event.type) \in DOMAIN Templates
    THEN EventAfterRecipients(event, get_event_recipients(event), 1,
                              TemplateKey(event.type))
    ELSE event

(***************************************************************************)
(* WebSocketManager: the connection registry and broadcast_event, which    *)
(* is suspended while a send_text is awaited.                              *)
(***************************************************************************)
ConnIndex(conns, user) ==
    LET S == {i \in 1..Len(conns) : conns[i].user = user}
    IN IF S = {} THEN 0 ELSE CHOOSE i \in S : TRUE

\* self.connections[user_id] = websocket
add_connection(conns, user, ws) ==
    IF ConnIndex(conns, user) # 0
    THEN [conns EXCEPT ![ConnIndex(conns, user)].ws = ws]
    ELSE Append(conns, [user |-> user, ws |-> ws])

\* The registry is emptied.
remove_connection_All(conns, user) == <<>>

\* if user_id in self.connections: del self.connections[user_id]
remove_connection(conns, user) ==
    SelectSeq(conns, LAMBDA c : c.user # user)

\* json.dumps(message)
BroadcastMessage(event) ==
    JsonObject(
      << <<"type", JsonString("event")>>,
         <<"data",
           JsonObject(
             << <<"id", JsonString(event.id)>>,
                <<"type", JsonString(event.type)>>,
                <<"timestamp", JsonString(event.timestamp)>>,
                <<"data", JsonData(event.data, ", ", ": ")>> >>,
             ", ", ": ")>> >>,
      ", ", ": ")

\* [event.user_id] if event.user_id else list(self.connections.keys())
TargetUsers(event, conns) ==
    IF TruthyStr(event.user_id) THEN <<event.user_id[1]>>
    ELSE [i \in 1..Len(conns) |-> conns[i].user]

\* The loop reads the registry itself at every step, not the list made
\* when the broadcast started.
BroadcastLoop_Live(b, conns) ==
    LET targets == [i \in 1..Len(conns) |-> conns[i].user]
    IN IF b.pos > Len(targets)
       THEN [pc |-> "done", target_users |-> <<>>, pos |-> 0, user |-> "", ws |-> 0]
       ELSE [b EXCEPT !.pc = "sending", !.target_users = targets, !.pos = @ + 1,
                      !.user = targets[b.pos], !.ws = conns[b.pos].ws]

RECURSIVE BroadcastLoop(_, _)
\* for user_id in target_users, from position pos of the list up to the
\* next send_text or to the end, where the locals are gone: a user who is
\* not connected is passed over.
BroadcastLoop(b, conns) ==
    IF b.pos > Len(b.target_users)
    THEN [pc |-> "done", target_users |-> <<>>, pos |-> 0, user |-> "", ws |-> 0]
    ELSE LET user == b.target_users[b.pos]
         IN IF ConnIndex(conns, user) # 0
            THEN [b EXCEPT !.pc = "sending", !.pos = @ + 1, !.user = user,
                           !.ws = conns[ConnIndex(conns, user)].ws]
            ELSE BroadcastLoop([b EXCEPT !.pos = @ + 1], conns)

(***************************************************************************)
(* Initial state: the module's global instances.  EventBus(), then the     *)
(* three dispatchers, each subscribing its handler in its constructor.     *)
(***************************************************************************)
NotificationEvents ==
    {"project.created", "proposal.generated", "proposal.approved",
     "user.registered", "system.error"}

GlobalSubscribers(t) ==
    <<"handle_event">>
    \o (IF t \in NotificationEvents THEN <<"handle_notification_event">> ELSE <<>>)
    \o <<"broadcast_event">>

NoEvent == Event(0, "", <<>>)

IdleTask ==
    [pc |-> "none", it |-> DictIter(<<>>), endpoint |-> NoEndpoint, attempt |-> 0,
     targets |-> {}]

\* history is the history that the call read.
NoQuery ==
    [called |-> FALSE, event_type |-> None, user_id |-> None, project_id |-> None,
     limit |-> 0, history |-> <<>>, result |-> <<>>]

IdleBroadcast == [pc |-> "none", target_users |-> <<>>, pos |-> 0, user |-> "", ws |-> 0]

\* No call of unsubscribe yet.
NoUnsubscribe ==
    [called |-> FALSE, event_type |-> "", callback |-> "", before |-> <<>>,
     after |-> <<>>, exc |-> "none"]

\* No call of get_event_recipients yet.
NoAsk == [called |-> FALSE, event |-> NoEvent, result |-> <<>>]

\* A direct call: its operation, what the channel's sender does if it is
\* awaited, the notification before and after the call, the exception that
\* left it and what it returned.
DirectCall(op, outcome, before, sent, returned) ==
    [op |-> op, outcome |-> outcome, before |-> before, after |-> sent.n,
     exc |-> sent.exc, returned |-> IF sent.exc = "none" THEN returned ELSE None]

NoDirect ==
    [op |-> "none", outcome |-> "", before |-> <<>>, after |-> <<>>, exc |-> "none",
     returned |-> None]

Init ==
    /\ subscribers = [t \in EventType |-> GlobalSubscribers(t)]
    /\ event_history = <<>>
    /\ endpoints = <<>>
    /\ session = "none"
    /\ pubs = [p \in Slots |->
                [pc |-> "idle", event |-> NoEvent, tasks |-> <<>>, subs |-> <<>>]]
    /\ hev = [p \in Slots |-> IdleTask]
    /\ wire = [p \in Slots |-> <<>>]
    /\ calls = [p \in Slots |-> <<>>]
    /\ emitted = 0
    /\ query = NoQuery
    /\ notifications = <<>>
    /\ connections = <<>>
    /\ bcast = [p \in Slots |-> IdleBroadcast]
    /\ pushed = [p \in Slots |-> <<>>]
    /\ asked = NoAsk
    /\ direct = NoDirect
    /\ unsubscribed = NoUnsubscribe
    /\ handed = [p \in Slots |-> NoEvent]
    /\ snapshot = [p \in Slots |-> <<>>]

(***************************************************************************)
(* EventBus operations.                                                    *)
(***************************************************************************)
\* subscribe(event_type, callback)
Subscribe(t, h) ==
    /\ Len(subscribers[t]) < Len(GlobalSubscribers(t)) + MaxSubscribe
    /\ subscribers' = [subscribers EXCEPT ![t] = Append(@, h)]
    /\ UNCHANGED <<event_history, endpoints, session, pubs, hev, wire, calls, emitted, query, dispatchers>>

Unsubscribe(t, h) ==
    /\ h \in {subscribers[t][i] : i \in 1..Len(subscribers[t])}
    /\ subscribers' = [subscribers EXCEPT ![t] = RemoveFirst(@, h)]
    /\ UNCHANGED <<event_history, endpoints, session, pubs, hev, wire, calls, emitted, query, dispatchers>>

\* subscribe(event_type, callback), also for a type that has no list.
SubscribeCall(t, h) ==
    /\ IF t \in DOMAIN subscribers THEN Len(subscribers[t]) < MaxSubscribe ELSE TRUE
    /\ subscribers' = subscribe(subscribers, t, h)
    /\ UNCHANGED <<event_history, endpoints, session, pubs, hev, wire, calls, emitted,
                   query, dispatchers>>

\* unsubscribe(event_type, callback), whatever the registry holds.
UnsubscribeCall(t, h) ==
    LET r == unsubscribe(subscribers, t, h)
    IN /\ subscribers' = r.subs
       /\ unsubscribed' = [called |-> TRUE, event_type |-> t, callback |-> h,
                           before |-> subscribers, after |-> r.subs, exc |-> r.exc]
       /\ UNCHANGED <<event_history, endpoints, session, pubs, hev, wire, calls,
                      emitted, query, notifications, connections, bcast, pushed,
                      asked, direct, handed, snapshot>>

\* The subscribers of the type are dropped once they have been notified.
PublishEvent_OneShot(p, event) ==
    LET acc == NotifyLoop(subscribers[event.type], 1, p,
                          [calls |-> <<>>, tasks |-> <<>>, raised |-> FALSE,
                           list |-> subscribers[event.type], event |-> event])
    IN /\ pubs[p].pc = "idle"
       /\ \A q \in 1..(p - 1) : pubs[q].pc # "idle"
       /\ emitted' = emitted + 1
       /\ event_history' = HistoryAppend(event_history, event)
       /\ subscribers' = [subscribers EXCEPT ![event.type] = <<>>]
       /\ calls' = [calls EXCEPT ![p] = acc.calls]
       /\ pubs' = [pubs EXCEPT ![p] =
                    [pc |-> IF acc.raised THEN "raised"
                            ELSE IF acc.tasks = <<>> THEN "returned"
                            ELSE "gather",
                     event |-> event,
                     tasks |-> IF acc.raised THEN <<>> ELSE acc.tasks,
                     subs |-> subscribers[event.type]]]
       /\ handed' = [handed EXCEPT ![p] = event]
       /\ UNCHANGED <<endpoints, session, hev, wire, query, notifications, connections,
                      bcast, pushed, asked, direct, unsubscribed, snapshot>>

\* publish(event), up to the await of gather (or to its return, when no
\* coroutine was collected), in the call slot p.  A slot is free until a
\* publish call begins in it, and the slots are taken in order.
PublishEvent(p, event) ==
    LET acc == NotifyLoop(subscribers[event.type], 1, p,
                          [calls |-> <<>>, tasks |-> <<>>, raised |-> FALSE,
                           list |-> subscribers[event.type], event |-> event])
    IN /\ pubs[p].pc = "idle"
       /\ \A q \in 1..(p - 1) : pubs[q].pc # "idle"
       /\ emitted' = emitted + 1
       /\ event_history' = HistoryAppend(event_history, event)
       /\ subscribers' = [subscribers EXCEPT ![event.type] = acc.list]
       /\ calls' = [calls EXCEPT ![p] = acc.calls]
       /\ pubs' = [pubs EXCEPT ![p] =
                    [pc |-> IF acc.raised THEN "raised"
                            ELSE IF acc.tasks = <<>> THEN "returned"
                            ELSE "gather",
                     event |-> event,
                     tasks |-> IF acc.raised THEN <<>> ELSE acc.tasks,
                     subs |-> subscribers[event.type]]]
       /\ handed' = [handed EXCEPT ![p] = event]
       /\ UNCHANGED <<endpoints, session, hev, wire, query, notifications, connections,
                      bcast, pushed, asked, direct, unsubscribed, snapshot>>

\* emit_event(event_type, source, data, user_id, project_id): the event it
\* builds, with the id and the timestamp of the n-th event.
emit_event(n, event_type, source, data, user_id, project_id) ==
    [Event(n, event_type, data) EXCEPT
        !.source = source, !.user_id = user_id, !.project_id = project_id]

\* await emit_event(event_type, source, data, user_id, project_id), up to
\* the first await of its publish.
Emit(p, event_type, source, data, user_id, project_id) ==
    PublishEvent(p, emit_event(emitted + 1, event_type, source, data, user_id, project_id))

\* A publish of the next event, of the type and with the data given.
Publish(p, type, data) == PublishEvent(p, Event(emitted + 1, type, data))

\* The caller of publish has its result: the call slot is free again.
PublishEnd(p) ==
    /\ pubs[p].pc \in {"returned", "raised"}
    /\ pubs' = [pubs EXCEPT ![p] =
                  [pc |-> "idle", event |-> NoEvent, tasks |-> <<>>, subs |-> <<>>]]
    /\ hev' = [hev EXCEPT ![p] = IdleTask]
    /\ wire' = [wire EXCEPT ![p] = <<>>]
    /\ calls' = [calls EXCEPT ![p] = <<>>]
    /\ bcast' = [bcast EXCEPT ![p] = IdleBroadcast]
    /\ pushed' = [pushed EXCEPT ![p] = <<>>]
    /\ handed' = [handed EXCEPT ![p] = NoEvent]
    /\ snapshot' = [snapshot EXCEPT ![p] = <<>>]
    /\ UNCHANGED <<subscribers, event_history, endpoints, session, emitted, query,
                   notifications, connections, asked, direct, unsubscribed>>

\* get_history(event_type, user_id, project_id, limit), called by any task
\* between two steps of the others.
GetHistory(event_type, user_id, project_id, limit) ==
    /\ query' = [called |-> TRUE, event_type |-> event_type, user_id |-> user_id,
                 project_id |-> project_id, limit |-> limit,
                 history |-> event_history,
                 result |-> get_history(event_history, event_type, user_id,
                                        project_id, limit)]
    /\ UNCHANGED <<subscribers, event_history, endpoints, session, pubs, hev, wire,
                   calls, emitted, dispatchers>>

\* A client's coroutine callback, or broadcast_event while no connection is
\* registered (`if not self.connections: return`), runs to its end.
TaskRun(p, i) ==
    /\ pubs[p].pc = "gather"
    /\ \/ pubs[p].tasks[i].h \in ClientHandlers \cup UnsubscribingHandlers
       \/ pubs[p].tasks[i].h = "broadcast_event" /\ connections = <<>>
    /\ MayStart(pubs[p].tasks, i)
    /\ LET h == pubs[p].tasks[i].h
           res == IF HandlerRaises(h) THEN "exc" ELSE "ok"
       IN /\ pubs' = [pubs EXCEPT ![p].tasks[i] = [h |-> h, st |-> "done", res |-> res]]
          /\ calls' = [calls EXCEPT ![p] = Append(@, Call(p, h, res, pubs[p].event))]
          /\ subscribers' = [subscribers EXCEPT ![pubs[p].event.type] = CallEffect(h, @)]
    /\ UNCHANGED <<event_history, endpoints, session, hev, wire, emitted, query, dispatchers>>

\* gather is done: publish logs and returns.
PublishReturn(p) ==
    /\ pubs[p].pc = "gather"
    /\ \A i \in 1..Len(pubs[p].tasks) : pubs[p].tasks[i].st = "done"
    /\ pubs' = [pubs EXCEPT ![p].pc =
                  IF GatherRaises(pubs[p].tasks) THEN "raised" ELSE "returned"]
    /\ UNCHANGED <<subscribers, event_history, endpoints, session, hev, wire, calls, emitted, query, dispatchers>>

(***************************************************************************)
(* WebhookManager operations.                                              *)
(***************************************************************************)
\* __aenter__
AEnter ==
    /\ session' = "open"
    /\ UNCHANGED <<subscribers, event_history, endpoints, pubs, hev, wire, calls, emitted, query, dispatchers>>

\* __aexit__: closes the session, which stays assigned
AExit ==
    /\ session # "none"
    /\ session' = "closed"
    /\ UNCHANGED <<subscribers, event_history, endpoints, pubs, hev, wire, calls, emitted, query, dispatchers>>

\* register_webhook(endpoint)
Register(endpoint) ==
    /\ DictIndex(endpoints, endpoint.id) # 0 \/ Len(endpoints) < MaxSlots
    /\ endpoints' = DictSet(endpoints, endpoint)
    /\ UNCHANGED <<subscribers, event_history, session, pubs, hev, wire, calls, emitted, query, dispatchers>>

\* unregister_webhook(endpoint_id)
Unregister(id) ==
    /\ DictIndex(endpoints, id) # 0
    /\ endpoints' = DictDel(endpoints, id)
    /\ UNCHANGED <<subscribers, event_history, session, pubs, hev, wire, calls, emitted, query, dispatchers>>

\* The state of the handle_event task of publish p after a step that left
\* the coroutine in c.
Stepped(p, c) ==
    LET i == TaskIndex(pubs[p].tasks, "handle_event")
    IN /\ hev' = [hev EXCEPT ![p] = c.t]
       /\ wire' = [wire EXCEPT ![p] = c.wire]
       /\ pubs' = [pubs EXCEPT ![p].tasks[i] =
                     IF c.t.pc = "done"
                     THEN [h |-> "handle_event", st |-> "done", res |-> "ok"]
                     ELSE IF c.t.pc = "raised"
                     THEN [h |-> "handle_event", st |-> "done", res |-> "exc"]
                     ELSE [h |-> "handle_event", st |-> "running", res |-> "none"]]

\* The ids of the registered endpoints that are active and subscribed to
\* the event's type.
Targets(slots, event) ==
    {slots[i].value.id : i \in {j \in 1..Len(slots) :
                                  slots[j].live /\ Matches(slots[j].value, event)}}

\* handle_event(event) starts: it runs to its first suspension.
DispatchStart(p) ==
    LET i == TaskIndex(pubs[p].tasks, "handle_event")
        c == [t |-> [pc |-> "running", it |-> DictIter(endpoints),
                     endpoint |-> NoEndpoint, attempt |-> 0,
                     targets |-> Targets(endpoints, pubs[p].event)],
              wire |-> wire[p]]
    IN /\ pubs[p].pc = "gather"
       /\ i # 0
       /\ MayStart(pubs[p].tasks, i)
       /\ Stepped(p, HandleLoop(c, p, pubs[p].event, endpoints, session))
       /\ calls' = [calls EXCEPT ![p] =
                      Append(@, Call(p, "handle_event", "started", pubs[p].event))]
       /\ UNCHANGED <<subscribers, event_history, endpoints, session, emitted, query, dispatchers>>

\* The attempt in flight gets its response, or fails.
Response(p, outcome) ==
    /\ hev[p].pc = "posting"
    /\ Stepped(p, OnResponse([t |-> hev[p], wire |-> wire[p]], p, pubs[p].event,
                             endpoints, session, outcome))
    /\ UNCHANGED <<subscribers, event_history, endpoints, session, calls, emitted, query, dispatchers>>

\* asyncio.sleep returns: the next attempt.
Wake(p) ==
    /\ hev[p].pc = "sleeping"
    /\ Stepped(p, Attempt([t |-> hev[p], wire |-> wire[p]], p, pubs[p].event,
                          endpoints, session, hev[p].attempt + 1))
    /\ UNCHANGED <<subscribers, event_history, endpoints, session, calls, emitted, query, dispatchers>>

(***************************************************************************)
(* NotificationManager and WebSocketManager operations.                    *)
(***************************************************************************)
\* The task of handle_notification_event(event) runs, to its end.
NotifyRun(p) ==
    LET i == TaskIndex(pubs[p].tasks, "handle_notification_event")
        r == handle_notification_event(pubs[p].event, notifications)
        res == IF r.exc = "none" THEN "ok" ELSE "exc"
    IN /\ pubs[p].pc = "gather"
       /\ i # 0
       /\ MayStart(pubs[p].tasks, i)
       /\ notifications' = r.list
       /\ pubs' = [pubs EXCEPT ![p].tasks[i] =
                     [h |-> "handle_notification_event", st |-> "done", res |-> res],
                                ![p].event = NotifiedEvent(pubs[p].event)]
       /\ calls' = [calls EXCEPT ![p] =
                      Append(@, Call(p, "handle_notification_event", res, pubs[p].event))]
       /\ UNCHANGED <<subscribers, event_history, endpoints, session, hev, wire,
                      emitted, query, connections, bcast, pushed, callers>>

\* add_connection(user_id, websocket)
AddConnection(user, ws) ==
    /\ connections' = add_connection(connections, user, ws)
    /\ UNCHANGED <<subscribers, event_history, endpoints, session, pubs, hev, wire,
                   calls, emitted, query, notifications, bcast, pushed, callers>>

\* remove_connection(user_id)
RemoveConnection(user) ==
    /\ ConnIndex(connections, user) # 0
    /\ connections' = remove_connection(connections, user)
    /\ UNCHANGED <<subscribers, event_history, endpoints, session, pubs, hev, wire,
                   calls, emitted, query, notifications, bcast, pushed, callers>>

\* The state of the broadcast_event task of publish p after a step that left
\* the coroutine in b: the send_text it is suspended in, if any, is logged.
Broadcast(p, b) ==
    LET i == TaskIndex(pubs[p].tasks, "broadcast_event")
    IN /\ bcast' = [bcast EXCEPT ![p] = b]
       /\ pubs' = [pubs EXCEPT ![p].tasks[i] =
                     IF b.pc = "done"
                     THEN [h |-> "broadcast_event", st |-> "done", res |-> "ok"]
                     ELSE [h |-> "broadcast_event", st |-> "running", res |-> "none"]]

SendText(log, b, event) ==
    IF b.pc = "sending"
    THEN Append(log, [user |-> b.user, ws |-> b.ws, res |-> "pending",
                      message |-> BroadcastMessage(event)])
    ELSE log

\* broadcast_event(event) starts, with a connection registered: it runs to
\* its first send_text, or to its end.
BroadcastStart(p) ==
    LET i == TaskIndex(pubs[p].tasks, "broadcast_event")
        b == BroadcastLoop([pc |-> "running",
                            target_users |-> TargetUsers(pubs[p].event, connections),
                            pos |-> 1, user |-> "", ws |-> 0], connections)
    IN /\ pubs[p].pc = "gather"
       /\ i # 0
       /\ MayStart(pubs[p].tasks, i)
       /\ connections # <<>>
       /\ Broadcast(p, b)
       /\ pushed' = [pushed EXCEPT ![p] = SendText(@, b, pubs[p].event)]
       /\ calls' = [calls EXCEPT ![p] =
                      Append(@, Call(p, "broadcast_event", "started", pubs[p].event))]
       /\ snapshot' = [snapshot EXCEPT ![p] = connections]
       /\ UNCHANGED <<subscribers, event_history, endpoints, session, hev, wire,
                      emitted, query, notifications, connections, asked, direct,
                      unsubscribed, handed>>

\* The send_text in flight returns ("ok") or raises ("raise"): after an
\* exception, remove_connection(user_id); then the loop goes on.
SendDone(p, outcome) ==
    LET conns == IF outcome = "raise"
                 THEN remove_connection(connections, bcast[p].user)
                 ELSE connections
        b == BroadcastLoop(bcast[p], conns)
        log == [pushed[p] EXCEPT ![Len(pushed[p])].res = outcome]
    IN /\ bcast[p].pc = "sending"
       /\ connections' = conns
       /\ Broadcast(p, b)
       /\ pushed' = [pushed EXCEPT ![p] = SendText(log, b, pubs[p].event)]
       /\ UNCHANGED <<subscribers, event_history, endpoints, session, hev, wire,
                      calls, emitted, query, notifications, callers>>

\* get_event_recipients(event), called on its own.
GetEventRecipients(event) ==
    /\ asked' = [called |-> TRUE, event |-> event,
                 result |-> get_event_recipients(event)]
    /\ UNCHANGED <<subscribers, event_history, endpoints, session, pubs, hev, wire,
                   calls, emitted, query, notifications, connections, bcast, pushed,
                   direct, unsubscribed, handed, snapshot>>

\* The payload of a user.registered event.
RegisteredData == << <<"email", "a@b.com">>, <<"full_name", "Ada">> >>

\* create_notification(event, recipient, "user_registered") called by a
\* holder of the manager, for an event of its own that is not published and
\* a recipient on the channel given: the notification is listed, pending.
CreateNotification(channel) ==
    LET event == Event(0, "user.registered", RegisteredData)
        recipient == Recipient(channel, "r@b.com", "Ada")
        c == create_notification(event, recipient, "user_registered", notifications)
    IN /\ Len(notifications) < MaxListed
       /\ c.exc = "none"
       /\ notifications' = c.list
       /\ UNCHANGED <<subscribers, event_history, endpoints, session, pubs, hev, wire,
                      calls, emitted, query, connections, bcast, pushed, callers>>

\* send_notification(notification) called by a holder of the i-th
\* notification of the list.
SendNotification(i) ==
    LET outcome == SenderResult(notifications[i].channel)
        sent == send_notification(notifications[i], outcome)
    IN /\ notifications[i].attempts < MaxAttempts
       /\ notifications' = [notifications EXCEPT ![i] = sent.n]
       /\ direct' = DirectCall("send_notification", outcome, notifications[i], sent, None)
       /\ UNCHANGED <<subscribers, event_history, endpoints, session, pubs, hev, wire,
                      calls, emitted, query, connections, bcast, pushed, asked,
                      unsubscribed, handed, snapshot>>

\* send_custom_notification(channel, recipient, subject, content): the
\* Notification it builds, with the k-th id.
CustomNotification(k, channel, recipient, subject, content) ==
    [Notification(k, "custom", channel, recipient, subject, content)
        EXCEPT !.id = "c" \o ToString(k)]

\* [exc, n, returned]
send_custom_notification(k, channel, recipient, subject, content, outcome) ==
    LET n == CustomNotification(k, channel, recipient, subject, content)
    IN DirectCall("send_custom_notification", outcome, n,
                  send_notification(n, outcome), Some(n.id))

\* The custom notification is kept in the list as well.
SendCustomNotification_Listed(channel, recipient, subject, content) ==
    LET call == send_custom_notification(1, channel, recipient, subject, content,
                                         SenderResult(channel))
    IN /\ direct' = call
       /\ notifications' = Append(notifications, call.after)
       /\ UNCHANGED <<subscribers, event_history, endpoints, session, pubs, hev, wire,
                      calls, emitted, query, connections, bcast, pushed,
                      asked, unsubscribed, handed, snapshot>>

\* await send_custom_notification(channel, recipient, subject, content)
SendCustomNotification(channel, recipient, subject, content) ==
    /\ direct' = send_custom_notification(1, channel, recipient, subject, content,
                                          SenderResult(channel))
    /\ UNCHANGED <<subscribers, event_history, endpoints, session, pubs, hev, wire,
                   calls, emitted, query, notifications, connections, bcast, pushed,
                   asked, unsubscribed, handed, snapshot>>

(***************************************************************************)
(* Inputs.                                                                 *)
(***************************************************************************)
Status(code) == [kind |-> "status", status |-> code]
Timeout == [kind |-> "timeout", status |-> 0]
TransportError == [kind |-> "error", status |-> 0]

TypeT == "project.updated"
TypeU == "user.login"

\* Endpoints of the dispatch specification, unsigned: subscribed to T
\* alone (with one retry), to T and U, or to T and inactive.
DispatchEndpoints ==
    { WebhookEndpoint(id, prof[1], prof[2], None, NoHeaders, prof[3]) :
        id \in {"A", "B"},
        prof \in { <<{TypeT}, TRUE, 2>>, <<{TypeT, TypeU}, TRUE, 1>>,
                   <<{TypeT}, FALSE, 1>> } }

DispatchOutcomes == {Status(200), Timeout}


(***************************************************************************)
(* Dispatch: the registry, the session, publishes and their deliveries.    *)
(***************************************************************************)
Next ==
    \/ \E e \in DispatchEndpoints : Register(e)
    \/ \E id \in {"A", "B"} : Unregister(id)
    \/ AEnter
    \/ AExit
    \/ \E p \in Publishes, t \in PubTypes : Publish(p, t, <<>>)
    \/ \E p \in Publishes : DispatchStart(p)
    \/ \E p \in Publishes, o \in DispatchOutcomes : Response(p, o)
    \/ \E p \in Publishes : Wake(p)
    \/ \E p \in Publishes : \E i \in 1..Len(pubs[p].tasks) : TaskRun(p, i)
    \/ \E p \in Publishes : PublishReturn(p)

Spec == Init /\ [][Next]_vars

(***************************************************************************)
(* Delivery: one endpoint and one event, every retry_count up to MaxRetry  *)
(* and every kind of outcome of an attempt.                                *)
(***************************************************************************)
DeliveryEndpoints ==
    { WebhookEndpoint("A", {TypeT}, TRUE, None, NoHeaders, n) : n \in 1..MaxRetry }

DeliveryOutcomes ==
    { Status(199), Status(200), Status(204), Status(299), Status(300),
      Status(404), Status(500), Timeout, TransportError }

NextDelivery ==
    \/ \E e \in DeliveryEndpoints : Register(e)
    \/ AEnter
    \/ AExit
    \/ Publish(1, TypeT, <<>>)
    \/ DispatchStart(1)
    \/ \E o \in DeliveryOutcomes : Response(1, o)
    \/ Wake(1)
    \/ \E i \in 1..Len(pubs[1].tasks) : TaskRun(1, i)
    \/ PublishReturn(1)

SpecDelivery == Init /\ [][NextDelivery]_vars

(***************************************************************************)
(* Signing: one endpoint, with or without a secret and extra headers.     *)
(***************************************************************************)
Secrets == {None, Some(""), Some("k1"), Some("k2")}

ExtraHeaders ==
    { NoHeaders,
      "X-Webhook-Signature" :> "forged",
      "Content-Type" :> "text/plain",
      ("User-Agent" :> "custom/2.0") @@ ("X-Tenant" :> "t1") }

SignEndpoints ==
    { WebhookEndpoint("A", PubTypes, TRUE, s, h, 2) : s \in Secrets, h \in ExtraHeaders }

SignOutcomes == {Status(200), Status(500)}

NextSign ==
    \/ \E e \in SignEndpoints : Register(e)
    \/ AEnter
    \/ \E t \in PubTypes, d \in EventData : Publish(1, t, d)
    \/ DispatchStart(1)
    \/ \E o \in SignOutcomes : Response(1, o)
    \/ \E i \in 1..Len(pubs[1].tasks) : TaskRun(1, i)
    \/ PublishReturn(1)

SpecSign == Init /\ [][NextSign]_vars

(***************************************************************************)
(* Bus: clients subscribe and unsubscribe callbacks; one event is          *)
(* published.                                                              *)
(***************************************************************************)
NextBus ==
    \/ \E h \in ClientHandlers : Subscribe(TypeT, h)
    \/ \E h \in ClientHandlers : Unsubscribe(TypeT, h)
    \/ \E t \in PubTypes : Publish(1, t, <<>>)
    \/ DispatchStart(1)
    \/ \E i \in 1..Len(pubs[1].tasks) : TaskRun(1, i)
    \/ PublishReturn(1)

SpecBus == Init /\ [][NextBus]_vars

(***************************************************************************)
(* History: producers publish one event after the other until the history *)
(* has been filled and MaxOver more events have been published.  The n-th  *)
(* event's type follows from n.  While the history fills, the first        *)
(* producer publishes alone.  When one more event fills the history the    *)
(* other producers join it, publishing concurrently, a client subscribes a *)
(* failing callback, once, to one type, and the dispatchers' handlers are  *)
(* unsubscribed from the other type, first subscribed first, which leaves  *)
(* it without subscriber.                                                  *)
(***************************************************************************)
HistoryEvent(n) ==
    emit_event(n, IF n % 2 = 0 THEN TypeT ELSE TypeU, "api", <<>>, None, None)

Filling == emitted < max_history - 1

NextHistory ==
    \/ \E p \in Producers :
          /\ emitted < max_history + MaxOver
          /\ p = 1 \/ ~Filling
          /\ PublishEvent(p, HistoryEvent(emitted + 1))
    \/ /\ ~Filling
       /\ \A i \in 1..Len(subscribers[TypeT]) : subscribers[TypeT][i] # "sync_raise"
       /\ Subscribe(TypeT, "sync_raise")
    \/ /\ ~Filling
       /\ subscribers[TypeU] # <<>>
       /\ Unsubscribe(TypeU, subscribers[TypeU][1])
    \/ \E p \in Producers : DispatchStart(p)
    \/ \E p \in Producers : \E i \in 1..Len(pubs[p].tasks) : TaskRun(p, i)
    \/ \E p \in Producers : PublishReturn(p)
    \/ \E p \in Producers : PublishEnd(p)

SpecHistory == Init /\ [][NextHistory]_vars

(***************************************************************************)
(* Query: up to MaxEvents events of two types, with and without user and   *)
(* project (the user can be the empty string), are published one after the *)
(* other, and the history is queried, once, at any time, with every        *)
(* combination of filters and limits, the default limit 100 among them.    *)
(***************************************************************************)
QueryProfiles ==
    { <<TypeT, Some("u1"), Some("p1")>>, <<TypeT, Some("u1"), None>>,
      <<TypeU, Some("u1"), Some("p1")>>, <<TypeT, Some(""), Some("p1")>>,
      <<TypeT, None, None>> }

QueryEvents(n) ==
    { emit_event(n, prof[1], "api", <<>>, prof[2], prof[3]) : prof \in QueryProfiles }

QueryTypes == {None, Some(TypeT), Some(TypeU)}
QueryUsers == {None, Some(""), Some("u1"), Some("u2")}
QueryProjects == {None, Some(""), Some("p1")}
QueryLimits == {0 - 1, 0, 1, 2, 100}

NextQuery ==
    \/ /\ emitted < MaxEvents
       /\ \E e \in QueryEvents(emitted + 1) : PublishEvent(1, e)
    \/ DispatchStart(1)
    \/ \E i \in 1..Len(pubs[1].tasks) : TaskRun(1, i)
    \/ PublishReturn(1)
    \/ PublishEnd(1)
    \/ /\ ~query.called
       /\ \E t \in QueryTypes, u \in QueryUsers, pr \in QueryProjects, l \in QueryLimits :
             GetHistory(t, u, pr, l)

SpecQuery == Init /\ [][NextQuery]_vars

(***************************************************************************)
(* Unsubscription: as Bus, with callbacks that unsubscribe when they are   *)
(* invoked, and unsubscribe calls of other tasks while publish awaits.     *)
(***************************************************************************)
UnsubHandlers == {"sync_ok", "coro_ok"} \cup UnsubscribingHandlers

NextUnsub ==
    \/ \E h \in UnsubHandlers : Subscribe(TypeT, h)
    \/ \E h \in UnsubHandlers : Unsubscribe(TypeT, h)
    \/ Publish(1, TypeT, <<>>)
    \/ DispatchStart(1)
    \/ \E i \in 1..Len(pubs[1].tasks) : TaskRun(1, i)
    \/ PublishReturn(1)

SpecUnsub == Init /\ [][NextUnsub]_vars

(***************************************************************************)
(* Emission: clients subscribe callbacks to one type, as in                *)
(* Unsubscription, and up to MaxEvents events of that type and of another  *)
(* are emitted through emit_event, one after the other.                    *)
(***************************************************************************)
EmitHandlers == {"sync_ok", "coro_ok", "sync_unsub_self"}

NextEmit ==
    \/ \E h \in EmitHandlers : Subscribe(TypeT, h)
    \/ \E h \in EmitHandlers : Unsubscribe(TypeT, h)
    \/ /\ emitted < MaxEvents
       /\ \E t \in PubTypes, d \in EventData : Emit(1, t, "api", d, None, None)
    \/ DispatchStart(1)
    \/ \E i \in 1..Len(pubs[1].tasks) : TaskRun(1, i)
    \/ PublishReturn(1)
    \/ PublishEnd(1)

SpecEmit == Init /\ [][NextEmit]_vars

(***************************************************************************)
(* Fan-out: one event goes to the three dispatchers.  An endpoint is       *)
(* registered for every type, before or during the dispatch, the session   *)
(* is opened or not, the attempts succeed or fail; users connect and       *)
(* disconnect and a send to a connection returns or raises; the event's    *)
(* payload lets its template render, lacks a field of it, has a string     *)
(* where the template formats a number, or both; or its type has no        *)
(* template, with or without the notification handler subscribed.          *)
(***************************************************************************)
ProposalData(total_value) ==
    << <<"proposal_number", "7">>, <<"project_name", "P">>, total_value,
       <<"valid_until", "31/12">>, <<"user_email", "o@b.com">> >>

FanoutProfiles ==
    { <<"user.registered", << <<"email", "a@b.com">>, <<"full_name", "Ada">> >>, None>>,
      <<"user.registered", << <<"email", "a@b.com">>, <<"full_name", "Ada">> >>, Some("u1")>>,
      <<"project.created", << <<"project_name", "P">> >>, None>>,
      <<"proposal.generated", ProposalData(<<"total_value", "abc">>), None>>,
      <<"proposal.generated", ProposalData(<<"total_value", 1234500, "int">>), Some("u2")>>,
      <<"proposal.generated",
        SelectSeq(ProposalData(<<"total_value", "abc">>),
                  LAMBDA entry : entry[1] # "valid_until"), None>>,
      <<"proposal.approved", ProposalData(<<"total_value", 1234500, "int">>), None>>,
      <<"project.updated", <<>>, None>> }

FanoutEndpoints ==
    { WebhookEndpoint(id, EventType, TRUE, None, NoHeaders, 2) : id \in {"A", "B"} }

FanoutOutcomes == {Status(200), Status(500), Timeout}

Users == {"u1", "u2"}

NextFanout ==
    \/ \E e \in FanoutEndpoints : Register(e)
    \/ AEnter
    \/ \E u \in Users : AddConnection(u, 1)
    \/ \E u \in Users : RemoveConnection(u)
    \/ \E prof \in FanoutProfiles : Emit(1, prof[1], "api", prof[2], prof[3], None)
    \/ DispatchStart(1)
    \/ \E o \in FanoutOutcomes : Response(1, o)
    \/ Wake(1)
    \/ NotifyRun(1)
    \/ \E i \in 1..Len(pubs[1].tasks) : TaskRun(1, i)
    \/ BroadcastStart(1)
    \/ \E o \in {"ok", "raise"} : SendDone(1, o)
    \/ PublishReturn(1)

SpecFanout == Init /\ [][NextFanout]_vars

(***************************************************************************)
(* Recipients: get_event_recipients is called with events of several       *)
(* types, with and without user and project (the user can be the empty     *)
(* string), whose payload is empty or names a registered user, an owner or *)
(* an error.                                                               *)
(***************************************************************************)
RecipientTypes ==
    {"system.error", "user.registered", "project.created", "proposal.approved",
     "project.updated"}

RecipientData ==
    { <<>>,
      << <<"email", "a@b.com">>, <<"full_name", "Ada">> >>,
      << <<"user_email", "o@b.com">>, <<"user_name", "Bea">> >>,
      << <<"error_type", "E">>, <<"error_message", "boom">>,
         <<"user_email", "o@b.com">> >> }

RecipientEvents ==
    { emit_event(1, t, "api", d, u, pr) :
        t \in RecipientTypes, d \in RecipientData,
        u \in {None, Some("u1"), Some("")}, pr \in {None, Some("p1")} }

NextRecipients == \E event \in RecipientEvents : GetEventRecipients(event)

SpecRecipients == Init /\ [][NextRecipients]_vars

(***************************************************************************)
(* Sending: user.registered events are published, one after the other,     *)
(* each making a notification that its handler sends; a caller creates a   *)
(* notification for a recipient on a channel of its choice; a holder of a  *)
(* listed notification calls send_notification on it, again and again, and *)
(* callers send custom notifications on every channel.                     *)
(***************************************************************************)
DirectChannels == {"slack", "teams"}

NextNotify ==
    \/ /\ Len(notifications) < MaxListed
       /\ Emit(1, "user.registered", "api", RegisteredData, None, None)
    \/ DispatchStart(1)
    \/ NotifyRun(1)
    \/ \E i \in 1..Len(pubs[1].tasks) : TaskRun(1, i)
    \/ PublishReturn(1)
    \/ PublishEnd(1)
    \/ \E channel \in DirectChannels : CreateNotification(channel)
    \/ \E i \in 1..Len(notifications) : SendNotification(i)
    \/ \E channel \in NotificationChannel :
          SendCustomNotification(channel, "r@b.com", "s", "c")

SpecNotify == Init /\ [][NextNotify]_vars

(***************************************************************************)
(* Live push: users connect, reconnect with another socket and disconnect  *)
(* at any time, also while a broadcast is suspended in a send; one event   *)
(* is published, for every user, for a user who may be connected, for a    *)
(* user who never is, or with the empty string as user; a send returns or  *)
(* raises.  No endpoint is registered.                                     *)
(***************************************************************************)
Sockets == {1, 2}

BroadcastUserIds == {None, Some("u1"), Some("u3"), Some("")}

NextBroadcast ==
    \/ \E u \in Users, ws \in Sockets : AddConnection(u, ws)
    \/ \E u \in Users : RemoveConnection(u)
    \/ \E u \in BroadcastUserIds : Emit(1, TypeT, "api", <<>>, u, None)
    \/ DispatchStart(1)
    \/ \E i \in 1..Len(pubs[1].tasks) : TaskRun(1, i)
    \/ BroadcastStart(1)
    \/ \E o \in {"ok", "raise"} : SendDone(1, o)
    \/ PublishReturn(1)

SpecBroadcast == Init /\ [][NextBroadcast]_vars

(***************************************************************************)
(* Retry counts: register_webhook stores the endpoint it is given, with    *)
(* whatever retry_count the caller constructed it: the dataclass and the   *)
(* registration test nothing.                                              *)
(***************************************************************************)
RetryCounts == {-1, 0, 1, 2}

RetryEndpoints ==
    { WebhookEndpoint(id, {TypeT}, TRUE, None, NoHeaders, n) :
        id \in {"A", "B"}, n \in RetryCounts }

RetryOutcomes == {Status(200), Status(500), Timeout}

NextRetry ==
    \/ \E e \in RetryEndpoints : Register(e)
    \/ AEnter
    \/ Publish(1, TypeT, <<>>)
    \/ DispatchStart(1)
    \/ \E o \in RetryOutcomes : Response(1, o)
    \/ Wake(1)
    \/ \E i \in 1..Len(pubs[1].tasks) : TaskRun(1, i)
    \/ PublishReturn(1)

SpecRetry == Init /\ [][NextRetry]_vars

(***************************************************************************)
(* Registry: on a bus as EventBus() makes it, with no list for any type,   *)
(* callbacks are subscribed to two types and unsubscribed from them,       *)
(* whether they are subscribed or not.                                     *)
(***************************************************************************)
InitBus ==
    /\ subscribers = <<>>
    /\ event_history = <<>>
    /\ endpoints = <<>>
    /\ session = "none"
    /\ pubs = [p \in Slots |->
                [pc |-> "idle", event |-> NoEvent, tasks |-> <<>>, subs |-> <<>>]]
    /\ hev = [p \in Slots |-> IdleTask]
    /\ wire = [p \in Slots |-> <<>>]
    /\ calls = [p \in Slots |-> <<>>]
    /\ emitted = 0
    /\ query = NoQuery
    /\ notifications = <<>>
    /\ connections = <<>>
    /\ bcast = [p \in Slots |-> IdleBroadcast]
    /\ pushed = [p \in Slots |-> <<>>]
    /\ asked = NoAsk
    /\ direct = NoDirect
    /\ unsubscribed = NoUnsubscribe
    /\ handed = [p \in Slots |-> NoEvent]
    /\ snapshot = [p \in Slots |-> <<>>]

RegistryHandlers == {"sync_ok", "coro_ok"}

NextRegistry ==
    \/ \E t \in PubTypes, h \in RegistryHandlers : SubscribeCall(t, h)
    \/ \E t \in PubTypes, h \in RegistryHandlers : UnsubscribeCall(t, h)

SpecRegistry == InitBus /\ [][NextRegistry]_vars

(***************************************************************************)
(* Reading the logs.                                                       *)
(***************************************************************************)
EndpointIds == {"A", "B"}

Entries(p, op, id) ==
    {i \in 1..Len(wire[p]) : wire[p][i].op = op /\ wire[p][i].ep = id}

\* The POST attempts of publish p to endpoint id.
PostCount(p, id) == Cardinality(Entries(p, "post", id))

\* Entry i records an attempt that failed: a status outside 200..299, a
\* timeout or a transport error.
IsFailure(e) ==
    \/ e.op \in {"timeout", "error"}
    \/ e.op = "status" /\ ~(e.n >= 200 /\ e.n <= 299)

FailedAttempts(p, id) ==
    {i \in 1..Len(wire[p]) : wire[p][i].ep = id /\ IsFailure(wire[p][i])}

\* handle_event of publish p is suspended inside the delivery to id.
InFlight(p, id) ==
    hev[p].pc \in {"posting", "sleeping"} /\ hev[p].endpoint.id = id

\* handle_event of publish p has ended.
Ended(p) == hev[p].pc \in {"done", "raised"}

Occurrences(list, h) == Cardinality({i \in 1..Len(list) : list[i] = h})

Invocations(p, h) == Cardinality({i \in 1..Len(calls[p]) : calls[p][i].h = h})

(***************************************************************************)
(* C1.  publish isolates its handlers: whatever handlers are registered    *)
(* for the event's type, plain or coroutine, raising or not, publish never *)
(* raises, and once it has returned every registered handler has been      *)
(* invoked as many times as it was registered; the plain ones have all     *)
(* been invoked by the time publish awaits the coroutines.                 *)
(***************************************************************************)
C1_HandlerIsolation ==
    \A p \in Publishes :
        /\ pubs[p].pc # "raised"
        /\ pubs[p].pc \in {"gather", "returned"} =>
             \A h \in {"sync_ok", "sync_raise"} :
                Invocations(p, h) = Occurrences(pubs[p].subs, h)
        /\ pubs[p].pc = "returned" =>
             \A h \in ClientHandlers \cup {"handle_event", "broadcast_event"} :
                Invocations(p, h) = Occurrences(pubs[p].subs, h)

\* A publish has returned whose subscriber list held a raising plain
\* callback and a raising coroutine callback, each followed by another
\* callback.
C1_Witness ==
    \E p \in Publishes :
        /\ pubs[p].pc = "returned"
        /\ \E i, j, k \in 1..Len(pubs[p].subs) :
              /\ i < k /\ j < k
              /\ pubs[p].subs[i] = "sync_raise"
              /\ pubs[p].subs[j] = "coro_raise"
              /\ pubs[p].subs[k] \in {"sync_ok", "coro_ok"}
              /\ Invocations(p, pubs[p].subs[k]) >= 1

(***************************************************************************)
(* C2.  Deliveries of one event to two endpoints are concurrent: a         *)
(* delivery that is still going on after an attempt that the endpoint let  *)
(* time out or answered with a failure status never holds back the first   *)
(* attempt to another endpoint that matched the event, whichever of the    *)
(* two was registered first.                                               *)
(***************************************************************************)
C2_FailingEndpointNeverDelays ==
    \A p \in Publishes : \A a, b \in hev[p].targets :
        (/\ a # b
         /\ InFlight(p, a)
         /\ \E i \in FailedAttempts(p, a) : wire[p][i].op \in {"timeout", "status"})
            => PostCount(p, b) >= 1

(***************************************************************************)
(* C3.  Every endpoint that matched the event has received at least one    *)
(* delivery attempt by the time the dispatch of the event has ended.       *)
(***************************************************************************)
C3_EveryTargetAttempted ==
    \A p \in Publishes :
        Ended(p) => \A id \in hev[p].targets : PostCount(p, id) >= 1

(***************************************************************************)
(* C4.  A change of the registry during a dispatch leaves the dispatch     *)
(* alone: handle_event never ends with an error, it calls send_webhook for *)
(* every endpoint that matched when it started, and for no other.          *)
(***************************************************************************)
C4_InFlightDispatchUnaffected ==
    \A p \in Publishes :
        /\ hev[p].pc # "raised"
        /\ \A i \in 1..Len(wire[p]) : wire[p][i].ep \in hev[p].targets
        /\ hev[p].pc = "done" =>
              \A id \in hev[p].targets :
                 \E i \in 1..Len(wire[p]) : wire[p][i].ep = id

(***************************************************************************)
(* C5.  A delivery never makes more POST attempts than the retry_count of  *)
(* its endpoint; when every attempt has failed it has made exactly         *)
(* retry_count attempts, it is abandoned, and neither handle_event nor     *)
(* publish ends with an error.                                             *)
(***************************************************************************)
C5_ExactlyRetryCountAttempts ==
    \A p \in Publishes :
        LET id == hev[p].endpoint.id
            n == hev[p].endpoint.retry_count
        IN hev[p].endpoint # NoEndpoint =>
             /\ PostCount(p, id) <= n
             /\ hev[p].pc # "raised"
             /\ pubs[p].pc # "raised"
             /\ Entries(p, "abandoned", id) # {} =>
                   /\ PostCount(p, id) = n
                   /\ Cardinality(FailedAttempts(p, id)) = n
                   /\ ~InFlight(p, id)
             /\ (Ended(p) /\ Entries(p, "sent", id) = {}
                          /\ Entries(p, "no_session", id) = {}) =>
                   /\ PostCount(p, id) = n
                   /\ Entries(p, "abandoned", id) # {}

\* A delivery to an endpoint with retry_count = MaxRetry was abandoned after
\* a non-2xx status, a timeout and a transport error, and publish returned.
C5_Witness ==
    \E p \in Publishes :
        /\ hev[p].endpoint.retry_count = MaxRetry
        /\ Entries(p, "abandoned", "A") # {}
        /\ Entries(p, "status", "A") # {}
        /\ Entries(p, "timeout", "A") # {}
        /\ Entries(p, "error", "A") # {}
        /\ PostCount(p, "A") = MaxRetry
        /\ pubs[p].pc = "returned"

(***************************************************************************)
(* C6.  After every failed attempt k that is not the last one, whatever    *)
(* the kind of failure, send_webhook sleeps 2^k before the next attempt;   *)
(* after the last attempt it does not sleep.                               *)
(***************************************************************************)
C6_BackoffAfterEveryFailure ==
    \A p \in Publishes : \A i \in 1..Len(wire[p]) :
        IsFailure(wire[p][i]) =>
            IF wire[p][i].k < hev[p].endpoint.retry_count - 1
            THEN /\ i < Len(wire[p])
                 /\ wire[p][i + 1].op = "sleep"
                 /\ wire[p][i + 1].n = 2 ^ wire[p][i].k
            ELSE i < Len(wire[p]) => wire[p][i + 1].op # "sleep"

(***************************************************************************)
(* C7.  An attempt that got a response is successful iff the status is in  *)
(* 200..299; the delivery stops at the first successful attempt: every     *)
(* attempt before it failed and no attempt follows it, so the attempts     *)
(* made are as many as the 1-based index of the first success.             *)
(***************************************************************************)
C7_StopsAtFirstSuccess ==
    \A p \in Publishes : \A i \in 1..Len(wire[p]) :
        wire[p][i].op = "status" =>
            LET e == wire[p][i]
                ok == e.n >= 200 /\ e.n <= 299
            IN /\ ok <=> (i < Len(wire[p]) /\ wire[p][i + 1].op = "sent")
               /\ ok => /\ PostCount(p, e.ep) = e.k + 1
                        /\ Cardinality(FailedAttempts(p, e.ep)) = e.k
                        /\ ~InFlight(p, e.ep)

\* A delivery succeeded at its last attempt, with status 299, after a
\* status 300 and a status 199.
C7_Witness ==
    \E p \in Publishes : \E i, j, k \in 1..Len(wire[p]) :
        /\ wire[p][i].op = "status" /\ wire[p][i].n = 299
        /\ wire[p][i].k = MaxRetry - 1
        /\ wire[p][j].op = "status" /\ wire[p][j].n = 300
        /\ wire[p][k].op = "status" /\ wire[p][k].n = 199
        /\ Entries(p, "sent", "A") # {}

(***************************************************************************)
(* C8.  For an endpoint with a secret, the X-Webhook-Signature header of   *)
(* every attempt is "sha256=" followed by the HMAC-SHA256, keyed by the    *)
(* secret, of the body that the request carries.                           *)
(***************************************************************************)
C8_SignatureCoversBody ==
    \A p \in Publishes : \A i \in 1..Len(wire[p]) :
        (wire[p][i].op = "post" /\ hev[p].endpoint.secret \notin {None, Some("")}) =>
            /\ "X-Webhook-Signature" \in DOMAIN wire[p][i].headers
            /\ wire[p][i].headers["X-Webhook-Signature"] =
                 "sha256=" \o HmacSha256Hex(hev[p].endpoint.secret[1], wire[p][i].body)

(***************************************************************************)
(* C9.  As claimed: no attempt to an endpoint without a secret carries an  *)
(* X-Webhook-Signature header, whatever the endpoint's extra headers.      *)
(***************************************************************************)
C9_NoSignatureWithoutSecret ==
    \A p \in Publishes : \A i \in 1..Len(wire[p]) :
        (wire[p][i].op = "post" /\ hev[p].endpoint.secret = None) =>
            "X-Webhook-Signature" \notin DOMAIN wire[p][i].headers

(***************************************************************************)
(* C9, amended.  send_webhook adds no signature of its own for an endpoint *)
(* without a secret (None or empty): an attempt carries an                 *)
(* X-Webhook-Signature header only when the endpoint's extra headers       *)
(* define one, and then with the endpoint's value.                         *)
(***************************************************************************)
C9_SignatureOnlyFromExtraHeaders ==
    \A p \in Publishes : \A i \in 1..Len(wire[p]) :
        (wire[p][i].op = "post" /\ hev[p].endpoint.secret \in {None, Some("")}) =>
            IF "X-Webhook-Signature" \in DOMAIN hev[p].endpoint.headers
            THEN /\ "X-Webhook-Signature" \in DOMAIN wire[p][i].headers
                 /\ wire[p][i].headers["X-Webhook-Signature"] =
                      hev[p].endpoint.headers["X-Webhook-Signature"]
            ELSE "X-Webhook-Signature" \notin DOMAIN wire[p][i].headers

\* An attempt was posted to an endpoint without a secret whose extra
\* headers define other headers, and it got its response.
C9_Witness ==
    \E p \in Publishes : \E i \in 1..Len(wire[p]) :
        /\ wire[p][i].op = "post"
        /\ hev[p].endpoint.secret = None
        /\ "X-Tenant" \in DOMAIN wire[p][i].headers
        /\ "X-Webhook-Signature" \notin DOMAIN wire[p][i].headers
        /\ Entries(p, "status", "A") # {}

(***************************************************************************)
(* C10.  Only endpoints that are active and subscribed to the type of the  *)
(* event get a delivery attempt for it, and each of them has got one by    *)
(* the time the dispatch of the event has ended.                           *)
(***************************************************************************)
C10_TypeFilter ==
    \A p \in Publishes :
        /\ \A id \in EndpointIds :
              PostCount(p, id) >= 1 => id \in hev[p].targets
        /\ Ended(p) =>
              \A id \in EndpointIds :
                 id \in hev[p].targets => PostCount(p, id) >= 1

(***************************************************************************)
(* C11.  A publish during which callbacks are unsubscribed, by a callback  *)
(* it invokes or by another task, does not fail, and by the time it        *)
(* returns it has invoked every callback that was registered for the type  *)
(* when it began, as many times as it was registered then.                 *)
(***************************************************************************)
C11_UnsubscribeLeavesPublishAlone ==
    \A p \in Publishes :
        /\ pubs[p].pc # "raised"
        /\ pubs[p].pc = "returned" =>
              \A h \in UnsubHandlers \cup {"handle_event", "broadcast_event"} :
                 Invocations(p, h) >= Occurrences(pubs[p].subs, h)

(***************************************************************************)
(* C12.  The history never holds more than max_history events: it holds    *)
(* the events published so far, and once more than max_history were        *)
(* published, the max_history most recently published ones, oldest first.  *)
(***************************************************************************)
C12_HistoryBounded ==
    /\ Len(event_history) <= max_history
    /\ Len(event_history) = (IF emitted > max_history THEN max_history ELSE emitted)
    /\ \A i \in 1..Len(event_history) :
          event_history[i].id = EventId(emitted - Len(event_history) + i)

\* More than max_history events were published: the oldest ones are gone.
C12_Witness ==
    /\ emitted = max_history + MaxOver
    /\ Len(event_history) = max_history
    /\ event_history[1].id = EventId(MaxOver + 1)

(***************************************************************************)
(* C13.  Every event handed to publish is in the history exactly once from *)
(* the step of its publish that appends it until max_history later events  *)
(* have been published: none is missing, none is there twice and none      *)
(* stays beyond its eviction, whatever the subscribers of its type do.     *)
(***************************************************************************)
C13_PublishedExactlyOnce ==
    LET ids == {event_history[i].id : i \in 1..Len(event_history)}
    IN /\ Cardinality(ids) = Len(event_history)
       /\ \A n \in 1..emitted : EventId(n) \in ids <=> n > emitted - max_history
       /\ \A p \in Producers :
             (pubs[p].pc # "idle" /\ pubs[p].event.id \in ids) =>
                Occurrences(event_history, pubs[p].event) = 1

\* With the history full, an event whose type had a failing callback and an
\* event whose type had no subscriber left are both in the history once, and
\* the publish call of the second has returned.
C13_Witness ==
    \E p, q \in Producers :
        /\ emitted > max_history
        /\ \E i \in 1..Len(calls[p]) : calls[p][i].res = "logged"
        /\ Occurrences(event_history, pubs[p].event) = 1
        /\ pubs[q].pc = "returned" /\ pubs[q].subs = <<>>
        /\ Occurrences(event_history, pubs[q].event) = 1

(***************************************************************************)
(* C14.  The history is updated in one step by the publish call that       *)
(* begins, and by nothing else: the event of that call is put at the end,  *)
(* after the events of the calls that began before it, the oldest event is *)
(* dropped in the same step if the history was full, and no state shows    *)
(* the history with more than max_history events.                          *)
(***************************************************************************)
C14_HistoryUpdateAtomic ==
    [][LET began == {p \in Producers : pubs[p].pc = "idle" /\ pubs'[p].pc # "idle"}
           kept == IF Len(event_history) >= max_history
                   THEN Tail(event_history) ELSE event_history
       IN /\ Len(event_history') <= max_history
          /\ Cardinality(began) <= 1
          /\ IF began = {} THEN event_history' = event_history
             ELSE \A p \in began : event_history' = Append(kept, pubs'[p].event)]_vars

\* Two publish calls are in progress at once, the history is full and has
\* evicted events, and its last two events are theirs, in the order in which
\* the calls began.
C14_Witness ==
    /\ emitted > max_history + 1
    /\ Len(event_history) = max_history
    /\ \E p, q \in Producers :
          /\ p # q
          /\ pubs[p].pc = "gather" /\ pubs[q].pc = "gather"
          /\ event_history[max_history - 1] = pubs[p].event
          /\ event_history[max_history] = pubs[q].event

\* Event e matches every filter that the query q gives (a filter that is
\* None is not given).
MatchesGiven(e, q) ==
    /\ q.event_type # None => e.type = q.event_type[1]
    /\ q.user_id # None => e.user_id = q.user_id
    /\ q.project_id # None => e.project_id = q.project_id

\* The events of the history that query q read which match its filters.
Matching(q) == SelectSeq(q.history, LAMBDA e : MatchesGiven(e, q))

\* The last n elements of list (all of them when it has fewer).
LastN(list, n) ==
    IF n >= Len(list) THEN list ELSE SubSeq(list, Len(list) - n + 1, Len(list))

IsSuffix(s, list) == Len(s) <= Len(list) /\ s = LastN(list, Len(s))

(***************************************************************************)
(* C15.  get_history returns events that match every filter given, type,   *)
(* user_id and project_id alike, in the order of the history, and none of  *)
(* the last `limit` matching events is missing from the result: the result *)
(* is the end of the list of matching events, at least `limit` long when   *)
(* there are that many.                                                    *)
(***************************************************************************)
C15_FiltersAreConjoined ==
    query.called =>
        /\ \A i \in 1..Len(query.result) : MatchesGiven(query.result[i], query)
        /\ IsSuffix(query.result, Matching(query))
        /\ query.limit >= 0 =>
              \A i \in 1..Len(LastN(Matching(query), query.limit)) :
                 \E j \in 1..Len(query.result) :
                    query.result[j] = LastN(Matching(query), query.limit)[i]

(***************************************************************************)
(* C16.  For a limit >= 0 (and filters that are absent or non-empty),      *)
(* get_history returns the last `limit` matching events of the history and *)
(* no more: at most `limit` events, none when the limit is 0.              *)
(***************************************************************************)
C16_AtMostLimit ==
    (/\ query.called
     /\ query.limit >= 0
     /\ query.user_id # Some("") /\ query.project_id # Some("")) =>
        /\ Len(query.result) <= query.limit
        /\ query.result = LastN(Matching(query), query.limit)

(***************************************************************************)
(* C17.  A callback subscribed once to type T when an event is emitted has *)
(* been invoked exactly once, with that event, when the publish of the     *)
(* event has returned, if the event is of type T, and has not been invoked *)
(* if the event is of another type.                                        *)
(***************************************************************************)
C17_InvokedOncePerEvent ==
    pubs[1].pc = "returned" =>
        \A h \in {"sync_ok", "coro_ok"} :
            IF pubs[1].event.type = TypeT
            THEN Occurrences(pubs[1].subs, h) = 1 =>
                    /\ Invocations(1, h) = 1
                    /\ \A i \in 1..Len(calls[1]) :
                          calls[1][i].h = h => calls[1][i].event = pubs[1].event
            ELSE Invocations(1, h) = 0

\* The notifications created from the event of publish p.
NotificationsOf(p) ==
    SelectSeq(notifications, LAMBDA n : n.event_id = pubs[p].event.id)

TaskResult(p, h) ==
    LET i == TaskIndex(pubs[p].tasks, h)
    IN IF i = 0 THEN "none" ELSE pubs[p].tasks[i].res

(***************************************************************************)
(* C18.  emit_event never raises: whatever the dispatchers run into for    *)
(* the event (every webhook attempt failed, the registry changed under the *)
(* dispatch, a template that does not render, a send to a connection that  *)
(* raises), the publish call does not end with an exception, and once the  *)
(* dispatchers' handlers have ended it awaits the others or has returned.  *)
(***************************************************************************)
C18_EmitNeverRaises ==
    /\ pubs[1].pc # "raised"
    /\ \A i \in 1..Len(pubs[1].tasks) :
          pubs[1].tasks[i].st = "done" => pubs[1].pc \in {"gather", "returned"}

\* publish has returned after a webhook delivery abandoned at its last
\* attempt, a notification handler ended by the exception of a rendering and
\* a send to a connection that raised.
C18_Witness ==
    /\ pubs[1].pc = "returned"
    /\ \E i \in 1..Len(wire[1]) : wire[1][i].op = "abandoned"
    /\ TaskResult(1, "handle_notification_event") = "exc"
    /\ \E i \in 1..Len(pushed[1]) : pushed[1][i].res = "raise"

(***************************************************************************)
(* C19.  While the webhook dispatcher is suspended in an attempt or in a   *)
(* backoff wait for an event, the other two dispatchers are not held back: *)
(* the notification handler, if it has not run yet, is ready to run; the   *)
(* broadcast, once the notification handler has taken its step, is ready   *)
(* to start; and a send in flight can complete now.                        *)
(***************************************************************************)
C19_DispatchersIndependent ==
    (pubs[1].pc = "gather" /\ hev[1].pc \in {"posting", "sleeping"}) =>
        LET tasks == pubs[1].tasks
            ni == TaskIndex(tasks, "handle_notification_event")
            bi == TaskIndex(tasks, "broadcast_event")
            waiting == ni # 0 /\ tasks[ni].st = "pending"
        IN /\ waiting => MayStart(tasks, ni)
           /\ (bi # 0 /\ tasks[bi].st = "pending" /\ ~waiting) => MayStart(tasks, bi)
           /\ bcast[1].pc = "sending" => ENABLED SendDone(1, "ok")

\* The webhook dispatcher is in a backoff wait for an event whose
\* notification has been created and sent and whose message has been sent
\* to a connection; the other two handlers have ended.
C19_Witness ==
    /\ pubs[1].pc = "gather"
    /\ hev[1].pc = "sleeping"
    /\ \E i \in 1..Len(NotificationsOf(1)) : NotificationsOf(1)[i].status = "sent"
    /\ \E i \in 1..Len(pushed[1]) : pushed[1][i].res = "ok"
    /\ TaskResult(1, "handle_notification_event") = "ok"
    /\ TaskResult(1, "broadcast_event") = "ok"

(***************************************************************************)
(* C20.  A user.registered event whose data carries email and full_name    *)
(* makes exactly one Notification: none before the notification handler    *)
(* has run for the event, and afterwards one, on the email channel, to the *)
(* email of the payload, with the event's id and the welcome subject.      *)
(***************************************************************************)
C20_RegisteredMakesOneNotification ==
    LET event == pubs[1].event
        ns == NotificationsOf(1)
    IN (/\ pubs[1].pc # "idle"
        /\ event.type = "user.registered"
        /\ Lookup(event.data, "email") # <<>>
        /\ Lookup(event.data, "full_name") # <<>>) =>
          IF TaskResult(1, "handle_notification_event") = "none"
          THEN ns = <<>>
          ELSE /\ TaskResult(1, "handle_notification_event") = "ok"
               /\ Len(ns) = 1
               /\ Len(notifications) = 1
               /\ ns[1].channel = "email"
               /\ ns[1].recipient = Lookup(event.data, "email")[2]
               /\ ns[1].event_id = event.id
               /\ ns[1].subject = "Bem-vindo ao Configurador 3D TSI"

\* The notification handler has run for the user.registered event of
\* a@b.com and its one notification has been sent.
C20_Witness ==
    /\ pubs[1].pc # "idle"
    /\ pubs[1].event.type = "user.registered"
    /\ TaskResult(1, "handle_notification_event") = "ok"
    /\ Len(NotificationsOf(1)) = 1
    /\ NotificationsOf(1)[1].recipient = "a@b.com"
    /\ NotificationsOf(1)[1].status = "sent"

(***************************************************************************)
(* C21.  For a system.error event get_event_recipients returns exactly one *)
(* recipient, on the email channel, at admin@tsi.com.br, whatever the      *)
(* event's user_id, project_id and data are.                               *)
(***************************************************************************)
C21_SystemErrorGoesToAdmin ==
    (asked.called /\ asked.event.type = "system.error") =>
        /\ Len(asked.result) = 1
        /\ asked.result[1].channel = "email"
        /\ asked.result[1].address = "admin@tsi.com.br"

\* The recipients of a system.error event with a user, a project and a
\* payload that names an address have been asked for.
C21_Witness ==
    /\ asked.called
    /\ asked.event.type = "system.error"
    /\ asked.event.user_id = Some("u1")
    /\ asked.event.project_id = Some("p1")
    /\ Lookup(asked.event.data, "user_email") # <<>>
    /\ Len(asked.result) = 1

\* The keys of the fields a template of the event is rendered with.
MergedKeys(event) ==
    {event.data[i][1] : i \in 1..Len(event.data)}
        \cup {"timestamp", "event_id", "user_name"}

Placeholders(parts) == {parts[i].field : i \in 1..Len(parts)} \ {""}

\* The event's type has a template, and a placeholder of it has no field.
LacksPlaceholder(event) ==
    /\ TemplateKey(event.type) \in DOMAIN Templates
    /\ \E name \in Placeholders(Templates[TemplateKey(event.type)].subject)
                   \cup Placeholders(Templates[TemplateKey(event.type)].content) :
          name \notin MergedKeys(event)

\* A field that a template formats as a number is there as a string.
IllTyped(event) ==
    Lookup(event.data, "total_value") # <<>> /\ ~IsInt(Lookup(event.data, "total_value"))

(***************************************************************************)
(* C22.  An event that lacks a placeholder of its template makes no        *)
(* Notification: the notifications list stays as it was, empty, nothing is *)
(* sent, the publish does not raise, the event is in the history, the      *)
(* notification handler ends without exception unless the rendering met an *)
(* ill-typed field first, and when publish has returned the webhook and    *)
(* the live-push handlers have been invoked and have ended.                *)
(***************************************************************************)
C22_MissingPlaceholderSkipped ==
    (pubs[1].pc # "idle" /\ LacksPlaceholder(pubs[1].event)) =>
        /\ notifications = <<>>
        /\ pubs[1].pc # "raised"
        /\ Occurrences(event_history, pubs[1].event) = 1
        /\ ~IllTyped(pubs[1].event) =>
              TaskResult(1, "handle_notification_event") \in {"none", "ok"}
        /\ pubs[1].pc = "returned" =>
              /\ Invocations(1, "handle_notification_event") = 1
              /\ Invocations(1, "handle_event") = 1
              /\ Invocations(1, "broadcast_event") = 1
              /\ \A i \in 1..Len(pubs[1].tasks) : pubs[1].tasks[i].st = "done"

\* The publish of a project.created event without project_id has returned:
\* the notification handler ended normally, a webhook was posted and the
\* message was pushed to a connection.
C22_Witness ==
    /\ pubs[1].pc = "returned"
    /\ pubs[1].event.type = "project.created"
    /\ LacksPlaceholder(pubs[1].event)
    /\ TaskResult(1, "handle_notification_event") = "ok"
    /\ notifications = <<>>
    /\ \E i \in 1..Len(wire[1]) : wire[1][i].op = "post"
    /\ \E i \in 1..Len(pushed[1]) : pushed[1][i].res = "ok"

(***************************************************************************)
(* C23.  An event of a type other than user.registered, project.created,   *)
(* proposal.generated and system.error makes no Notification and no send:  *)
(* the notifications list stays as it was, and the notification handler,   *)
(* where it is subscribed to the type, ends without exception.             *)
(***************************************************************************)
C23_OtherTypesNotifyNobody ==
    (/\ pubs[1].pc # "idle"
     /\ pubs[1].event.type \notin {"user.registered", "project.created",
                                   "proposal.generated", "system.error"}) =>
        /\ notifications = <<>>
        /\ TaskResult(1, "handle_notification_event") \in {"none", "ok"}

\* The publish of a proposal.approved event, whose payload has every field
\* of a proposal, has returned after the notification handler ran.
C23_Witness ==
    /\ pubs[1].pc = "returned"
    /\ pubs[1].event.type = "proposal.approved"
    /\ Invocations(1, "handle_notification_event") = 1
    /\ TaskResult(1, "handle_notification_event") = "ok"
    /\ notifications = <<>>

(***************************************************************************)
(* C24.  A call of send_notification adds exactly 1 to the notification's  *)
(* attempts and changes nothing else but status and sent_at; on a channel  *)
(* that has a sender it leaves the status "sent", with sent_at set, when   *)
(* the sender returned True, and "failed" when the sender returned False   *)
(* or raised; it never leaves the status "pending" and raises nothing.     *)
(***************************************************************************)
C24_SendCountsAndSettles ==
    direct.op # "none" =>
        /\ direct.exc = "none"
        /\ direct.after.attempts = direct.before.attempts + 1
        /\ direct.after.status \in {"sent", "failed"}
        /\ direct.after = [direct.before EXCEPT !.attempts = direct.after.attempts,
                                                !.status = direct.after.status,
                                                !.sent_at = direct.after.sent_at]
        /\ direct.before.channel \in {"email", "sms", "slack"} =>
              IF direct.outcome = "True"
              THEN direct.after.status = "sent" /\ direct.after.sent_at # None
              ELSE direct.after.status = "failed"

\* send_notification has been called a second time on the email notification
\* of an event, whose sender reported success again, after the notification
\* created for a teams recipient was sent and failed.
C24_Witness ==
    /\ direct.op = "send_notification"
    /\ direct.outcome = "True"
    /\ direct.before.channel = "email"
    /\ direct.before.attempts = 1
    /\ direct.after.attempts = 2
    /\ direct.after.status = "sent"
    /\ direct.after.sent_at # None
    /\ \E j \in 1..Len(notifications) :
          /\ notifications[j].channel = "teams"
          /\ notifications[j].attempts = 1
          /\ notifications[j].status = "failed"
          /\ notifications[j].sent_at = None

(***************************************************************************)
(* C25.  The status of a notification moves one way: once it is "sent" or  *)
(* "failed", no step changes it, whatever calls of send_notification are   *)
(* made on the notification; in particular it never returns to "pending".  *)
(***************************************************************************)
C25_StatusOneWay ==
    [][\A i \in 1..Len(notifications) :
          notifications[i].status # "pending" =>
             /\ i <= Len(notifications')
             /\ notifications'[i].status = notifications[i].status]_vars

\* send_notification has been called three times on a notification that is
\* sent and three times on one that is failed: each kept the status that its
\* first call gave it.
C25_Witness ==
    \E i, j \in 1..Len(notifications) :
       /\ notifications[i].status = "sent"
       /\ notifications[i].attempts = 3
       /\ notifications[j].status = "failed"
       /\ notifications[j].attempts = 3
       /\ direct.op = "send_notification"
       /\ direct.before.status = direct.after.status
       /\ direct.before.attempts = 2

(***************************************************************************)
(* C26.  A send on a channel without sender (webhook, websocket, teams)    *)
(* leaves the notification "failed", with 1 added to its attempts and      *)
(* sent_at as it was, and raises nothing; send_custom_notification then    *)
(* returns the id of the notification it built.                            *)
(***************************************************************************)
C26_NoSenderFails ==
    (direct.op # "none" /\ direct.before.channel \in {"webhook", "websocket", "teams"}) =>
        /\ direct.exc = "none"
        /\ direct.after.status = "failed"
        /\ direct.after.attempts = direct.before.attempts + 1
        /\ direct.after.sent_at = direct.before.sent_at
        /\ direct.op = "send_custom_notification" =>
              direct.returned = Some(direct.before.id)

\* A custom notification has been sent on the teams channel.
C26_Witness ==
    /\ direct.op = "send_custom_notification"
    /\ direct.before.channel = "teams"
    /\ direct.before.status = "pending"
    /\ direct.after.status = "failed"
    /\ direct.returned # None

\* The users registered in conns, in the order of the registry.
ConnectedUsers(conns) == [i \in 1..Len(conns) |-> conns[i].user]

\* A step of the broadcast of publish 1 deals with its targets in turn: it
\* passes over the targets that are not connected, and it sends the message
\* to the first one that is, on the connection registered for it.
BroadcastStepInOrder ==
    LET b == bcast[1]
        b1 == bcast'[1]
        targets == IF b.pc = "none" THEN TargetUsers(pubs[1].event, connections)
                   ELSE b.target_users
        from == IF b.pc = "none" THEN 1 ELSE b.pos
        upto == IF b1.pc = "done" THEN Len(targets) ELSE b1.pos - 1
    IN (b1 # b /\ b1.pc # "none") =>
          /\ b1.pc = "sending" => b1.target_users = targets
          /\ \A k \in from..upto :
                IF b1.pc = "sending" /\ k = upto
                THEN /\ ConnIndex(connections', targets[k]) # 0
                     /\ Len(pushed'[1]) = Len(pushed[1]) + 1
                     /\ pushed'[1][Len(pushed'[1])].user = targets[k]
                     /\ pushed'[1][Len(pushed'[1])].ws =
                           connections'[ConnIndex(connections', targets[k])].ws
                     /\ pushed'[1][Len(pushed'[1])].message =
                           BroadcastMessage(pubs[1].event)
                ELSE ConnIndex(connections', targets[k]) = 0
          /\ b1.pc = "done" => Len(pushed'[1]) = Len(pushed[1])

(***************************************************************************)
(* C27.  An event whose user_id is set is sent to the connection of that   *)
(* user only, never to another user's; an event without user_id is sent to *)
(* every user connected when its broadcast starts, in turn, each on the    *)
(* connection it has when its turn comes.                                  *)
(***************************************************************************)
C27_BroadcastTargets ==
    [][/\ pubs'[1].event.user_id # None =>
             \A i \in 1..Len(pushed'[1]) :
                pushed'[1][i].user = pubs'[1].event.user_id[1]
       /\ pubs'[1].event.user_id = None =>
             /\ (bcast[1].pc = "none" /\ bcast'[1].pc = "sending") =>
                   bcast'[1].target_users = ConnectedUsers(connections)
             /\ BroadcastStepInOrder]_vars

(***************************************************************************)
(* C28.  When a send of a broadcast raises, the connection of the user it  *)
(* was for is removed from the registry and every other connection stays   *)
(* registered as it was; the broadcast goes on with its other targets,     *)
(* each of which still gets the message if it is connected; and neither    *)
(* the broadcast nor the publish ends with the exception.                  *)
(***************************************************************************)
C28_FailedSendDeregisters ==
    [][LET n == Len(pushed[1])
           raised == /\ n > 0
                     /\ pushed[1][n].res = "pending"
                     /\ pushed'[1][n].res = "raise"
       IN /\ raised =>
                /\ ConnIndex(connections', pushed[1][n].user) = 0
                /\ \A u \in Users \ {pushed[1][n].user} :
                      /\ ConnIndex(connections', u) # 0 <=> ConnIndex(connections, u) # 0
                      /\ ConnIndex(connections, u) # 0 =>
                            connections'[ConnIndex(connections', u)] =
                               connections[ConnIndex(connections, u)]
          /\ BroadcastStepInOrder
          /\ pubs'[1].pc # "raised"
          /\ TaskResult(1, "broadcast_event")' # "exc"]_vars

\* The send to u1 raised and u1 is no longer registered; the send to u2,
\* made after it, returned, u2 is still registered, and publish returned.
C28_Witness ==
    /\ pubs[1].pc = "returned"
    /\ Len(pushed[1]) = 2
    /\ pushed[1][1].user = "u1" /\ pushed[1][1].res = "raise"
    /\ pushed[1][2].user = "u2" /\ pushed[1][2].res = "ok"
    /\ ConnIndex(connections, "u1") = 0
    /\ ConnIndex(connections, "u2") # 0

(***************************************************************************)
(* C29.  unsubscribe of a callback that is not subscribed to the type, be  *)
(* it that it never was, that it was removed already or that the type has  *)
(* no list, raises nothing and leaves the registry as it was.              *)
(***************************************************************************)
C29_UnsubscribeAbsentIsNoOp ==
    LET u == unsubscribed
        absent == \/ u.event_type \notin DOMAIN u.before
                  \/ \A i \in 1..Len(u.before[u.event_type]) :
                        u.before[u.event_type][i] # u.callback
    IN (u.called /\ absent) => (u.exc = "none" /\ u.after = u.before)

\* unsubscribe has been called for a callback that is not in the list of
\* the type, which holds another callback.
C29_Witness ==
    /\ unsubscribed.called
    /\ unsubscribed.event_type \in DOMAIN unsubscribed.before
    /\ unsubscribed.before[unsubscribed.event_type] = <<"coro_ok">>
    /\ unsubscribed.callback = "sync_ok"
    /\ unsubscribed.after = unsubscribed.before

(***************************************************************************)
(* C30.  The bus and the three dispatchers leave a published event as it   *)
(* was: once publish has returned (or raised), the event has the id, type, *)
(* source, timestamp, data, user_id, project_id and metadata it had when   *)
(* it was handed to publish, and every handler was called with that event. *)
(***************************************************************************)
C30_EventNotMutated ==
    pubs[1].pc \in {"returned", "raised"} =>
        /\ pubs[1].event = handed[1]
        /\ \A k \in 1..Len(calls[1]) : calls[1][k].event = handed[1]

\* A publish has returned whose event was posted to an endpoint, made a
\* notification and was pushed to a connection.
C30_Witness ==
    /\ pubs[1].pc = "returned"
    /\ wire[1] # <<>>
    /\ pushed[1] # <<>>
    /\ \E k \in 1..Len(notifications) : notifications[k].event_id = handed[1].id
    /\ {calls[1][k].h : k \in 1..Len(calls[1])} =
          {"handle_event", "handle_notification_event", "broadcast_event"}

(***************************************************************************)
(* C31.  Every endpoint held in the webhook registry has retry_count >= 1, *)
(* and every delivery that was begun with the session open and was given   *)
(* up has made at least one attempt.                                       *)
(***************************************************************************)
C31_RetryCountAtLeastOne ==
    /\ \A i \in 1..Len(endpoints) :
          endpoints[i].live => endpoints[i].value.retry_count >= 1
    /\ \A i \in 1..Len(wire[1]) :
          wire[1][i].op = "abandoned" => PostCount(1, wire[1][i].ep) >= 1

(***************************************************************************)
(* C32.  As claimed: in the headers of every attempt, each key that the    *)
(* endpoint's extra headers define carries the endpoint's value, whatever  *)
(* header the dispatcher sets itself.                                      *)
(***************************************************************************)
C32_EndpointHeadersWin ==
    \A i \in 1..Len(wire[1]) :
        wire[1][i].op = "post" =>
            \A key \in DOMAIN hev[1].endpoint.headers :
                /\ key \in DOMAIN wire[1][i].headers
                /\ wire[1][i].headers[key] = hev[1].endpoint.headers[key]

(***************************************************************************)
(* C32, amended.  In the headers of every attempt, each key that the       *)
(* endpoint's extra headers define carries the endpoint's value, over      *)
(* Content-Type and User-Agent as well; except X-Webhook-Signature when    *)
(* the endpoint has a secret, which carries the signature the dispatcher   *)
(* computes.                                                               *)
(***************************************************************************)
C32_EndpointHeadersWinButSignature ==
    \A i \in 1..Len(wire[1]) :
        wire[1][i].op = "post" =>
            \A key \in DOMAIN hev[1].endpoint.headers :
                /\ key \in DOMAIN wire[1][i].headers
                /\ wire[1][i].headers[key] =
                      IF key = "X-Webhook-Signature" /\ HasSecret(hev[1].endpoint)
                      THEN Signature(hev[1].endpoint, pubs[1].event)
                      ELSE hev[1].endpoint.headers[key]

\* An attempt was posted to an endpoint with a secret whose extra headers
\* define Content-Type: it carries the endpoint's Content-Type.
C32_Witness ==
    \E i \in 1..Len(wire[1]) :
        /\ wire[1][i].op = "post"
        /\ HasSecret(hev[1].endpoint)
        /\ "Content-Type" \in DOMAIN hev[1].endpoint.headers
        /\ wire[1][i].headers["Content-Type"] = "text/plain"
        /\ "X-Webhook-Signature" \in DOMAIN wire[1][i].headers

(***************************************************************************)
(* C33.  When publish has returned, every coroutine handler that was       *)
(* registered for the event's type when publish was called has been        *)
(* invoked, as often as it was registered, and has ended: no coroutine of  *)
(* that publish is pending or running, no webhook attempt is in flight, no *)
(* backoff wait is going on and no live push is suspended in a send.       *)
(***************************************************************************)
C33_ReturnsAfterAllCoroutines ==
    pubs[1].pc = "returned" =>
        /\ \A i \in 1..Len(pubs[1].subs) :
              IsCoroutineFunction(pubs[1].subs[i]) =>
                 Invocations(1, pubs[1].subs[i]) = Occurrences(pubs[1].subs, pubs[1].subs[i])
        /\ \A i \in 1..Len(pubs[1].tasks) : pubs[1].tasks[i].st = "done"
        /\ hev[1].pc \notin {"running", "posting", "sleeping"}
        /\ bcast[1].pc # "sending"

(***************************************************************************)
(* C34.  A send that raises deregisters the connection it was made on      *)
(* only: when the user has registered another connection while the send    *)
(* was suspended, that connection is still registered after the step in    *)
(* which the send raises.                                                  *)
(***************************************************************************)
C34_ReconnectSurvivesFailedSend ==
    [][LET n == Len(pushed[1])
           raised == /\ n > 0
                     /\ pushed[1][n].res = "pending"
                     /\ pushed'[1][n].res = "raise"
           k == ConnIndex(connections, pushed[1][n].user)
       IN (raised /\ k # 0 /\ connections[k].ws # pushed[1][n].ws) =>
             /\ ConnIndex(connections', pushed[1][n].user) # 0
             /\ connections'[ConnIndex(connections', pushed[1][n].user)].ws =
                   connections[k].ws]_vars

(***************************************************************************)
(* C35.  While the session of the webhook manager has not been opened, a   *)
(* delivery makes no attempt and no wait: handle_event passes every        *)
(* matching endpoint with the "session not initialized" error line and     *)
(* ends without an exception, in the one step in which it started, and     *)
(* that step changes neither the endpoint registry nor the session nor the *)
(* subscribers, the history, the notifications or the connections.         *)
(***************************************************************************)
C35_NoSessionNoAttempt ==
    [][session' = "none" =>
          \A p \in Publishes :
             /\ \A i \in 1..Len(wire'[p]) : wire'[p][i].op = "no_session"
             /\ hev'[p].pc \in {"none", "done"}
             /\ pubs'[p].pc # "raised"
             /\ hev'[p] # hev[p] =>
                   /\ endpoints' = endpoints
                   /\ session' = session
                   /\ subscribers' = subscribers
                   /\ event_history' = event_history
                   /\ notifications' = notifications
                   /\ connections' = connections]_vars

\* With the session never opened, a publish has returned whose event matched
\* the two registered endpoints: each was passed without an attempt.
C35_Witness ==
    /\ session = "none"
    /\ pubs[1].pc = "returned"
    /\ Entries(1, "no_session", "A") # {}
    /\ Entries(1, "no_session", "B") # {}
    /\ PostCount(1, "A") = 0
    /\ PostCount(1, "B") = 0

(***************************************************************************)
(* C36.  Within a publish, once a handler has been invoked the event is in *)
(* the history; and once a coroutine handler has started, every plain      *)
(* handler that was registered for the type when publish was called has    *)
(* been invoked, as often as it was registered, and has ended, wherever it *)
(* stood in the list.                                                      *)
(***************************************************************************)
C36_HistoryThenPlainThenCoroutines ==
    LET started == {i \in 1..Len(calls[1]) : IsCoroutineFunction(calls[1][i].h)}
    IN /\ calls[1] # <<>> =>
             \E i \in 1..Len(event_history) : event_history[i] = pubs[1].event
       /\ started # {} =>
             \A i \in 1..Len(pubs[1].subs) :
                ~IsCoroutineFunction(pubs[1].subs[i]) =>
                   /\ Invocations(1, pubs[1].subs[i]) =
                         Occurrences(pubs[1].subs, pubs[1].subs[i])
                   /\ \A j \in 1..Len(calls[1]) :
                         calls[1][j].h = pubs[1].subs[i] =>
                            /\ calls[1][j].res \in {"returned", "logged"}
                            /\ \A c \in started : j < c

(***************************************************************************)
(* C37.  A publish that has returned has invoked every client callback as  *)
(* many times as it was registered for the type when publish was called;   *)
(* and a step that shortens the subscriber list of the type removes one    *)
(* registration of one callback and leaves the number of registrations of  *)
(* every other callback as it was.                                         *)
(***************************************************************************)
C37_RegisteredTimesInvokedTimes ==
    [][/\ pubs'[1].pc = "returned" =>
             \A h \in ClientHandlers \cup UnsubscribingHandlers :
                Invocations(1, h)' = Occurrences(pubs'[1].subs, h)
       /\ (pubs[1].pc # "gather" /\ pubs'[1] = pubs[1]
           /\ Len(subscribers'[TypeT]) < Len(subscribers[TypeT])) =>
             \E h \in ClientHandlers \cup UnsubscribingHandlers :
                /\ Occurrences(subscribers'[TypeT], h) =
                      Occurrences(subscribers[TypeT], h) - 1
                /\ \A g \in (ClientHandlers \cup UnsubscribingHandlers \cup {"handle_event", "broadcast_event"}) \ {h} :
                      Occurrences(subscribers'[TypeT], g) =
                         Occurrences(subscribers[TypeT], g)]_vars

(***************************************************************************)
(* C38.  The notifications list only grows: every notification stays at    *)
(* its place in it.  The run of the notification handler for an event that *)
(* renders puts the notification it creates at the end of the list; once   *)
(* the publish of the event has returned, every notification of the event  *)
(* has at least one attempt and a status other than "pending".  A call of  *)
(* send_custom_notification leaves the list as it is, and no listed        *)
(* notification is a custom one.                                           *)
(***************************************************************************)
C38_NotificationsRetained ==
    [][/\ Len(notifications') >= Len(notifications)
       /\ \A i \in 1..Len(notifications) :
             /\ notifications'[i].id = notifications[i].id
             /\ notifications'[i].event_id = notifications[i].event_id
       /\ \A i \in 1..Len(notifications') : notifications'[i].event_id # "custom"
       /\ (TaskResult(1, "handle_notification_event") = "none"
           /\ TaskResult(1, "handle_notification_event")' = "ok") =>
             /\ Len(notifications') = Len(notifications) + 1
             /\ notifications'[Len(notifications')].event_id = pubs[1].event.id
       /\ pubs'[1].pc = "returned" =>
             \A i \in 1..Len(notifications') :
                notifications'[i].event_id = pubs'[1].event.id =>
                   /\ notifications'[i].attempts >= 1
                   /\ notifications'[i].status # "pending"
       /\ (direct' # direct /\ direct'.op = "send_custom_notification") =>
             notifications' = notifications]_vars

\* Two events have made their notifications, the publish of the second has
\* returned, and a custom notification has been sent since: the list holds
\* the two notifications, both attempted.
C38_Witness ==
    /\ pubs[1].pc = "returned"
    /\ Len(notifications) = 2
    /\ notifications[1].event_id # notifications[2].event_id
    /\ notifications[2].event_id = pubs[1].event.id
    /\ notifications[1].attempts >= 1
    /\ notifications[2].attempts >= 1
    /\ direct.op = "send_custom_notification"
    /\ direct.after.status = "sent"

(***************************************************************************)
(* C39.  As claimed: every send of the broadcast of an event without       *)
(* user_id is made on a connection that was registered when the broadcast  *)
(* started; a connection added since does not receive the event.           *)
(***************************************************************************)
C39_StartConnectionsOnly ==
    pubs[1].event.user_id = None =>
        \A i \in 1..Len(pushed[1]) :
            \E k \in 1..Len(snapshot[1]) :
                /\ snapshot[1][k].user = pushed[1][i].user
                /\ snapshot[1][k].ws = pushed[1][i].ws

(***************************************************************************)
(* C39, amended.  The broadcast of an event without user_id targets the    *)
(* users connected when it starts: a user who connects while it is         *)
(* suspended in a send, and was not connected at the start, does not       *)
(* receive the event; a target gets it on the connection it has when its   *)
(* turn comes, which may be one registered since the start; a target that  *)
(* is no longer connected is passed over without a send, and the broadcast *)
(* does not end with an error.                                             *)
(***************************************************************************)
C39_StartUsersOnly ==
    [][pubs'[1].event.user_id = None =>
          /\ \A i \in 1..Len(pushed'[1]) :
                \E k \in 1..Len(snapshot'[1]) :
                    snapshot'[1][k].user = pushed'[1][i].user
          /\ bcast'[1].pc = "sending" =>
                bcast'[1].target_users = ConnectedUsers(snapshot'[1])
          /\ BroadcastStepInOrder
          /\ TaskResult(1, "broadcast_event")' # "exc"]_vars

\* A broadcast that started with u1 alone connected has ended: u1 got the
\* event, and u2, who connected while the send to u1 was suspended and is
\* still connected, got nothing.
C39_Witness ==
    /\ pubs[1].event.user_id = None
    /\ bcast[1].pc = "done"
    /\ ConnectedUsers(snapshot[1]) = <<"u1">>
    /\ ConnIndex(connections, "u2") # 0
    /\ Len(pushed[1]) = 1
    /\ pushed[1][1].user = "u1"
    /\ pushed[1][1].res = "ok"

(***************************************************************************)
(* C40.  A step of a publish (of the bus or of one of the three            *)
(* dispatchers working for it) leaves the subscriber registry, the         *)
(* endpoint registry with every endpoint record in it and the session as   *)
(* they were; it changes the connection registry only when a send of the   *)
(* live push raises, and then by removing the user the send was for.       *)
(***************************************************************************)
C40_PublishFrame ==
    [][LET n == Len(pushed[1])
           raised == /\ n > 0
                     /\ pushed[1][n].res = "pending"
                     /\ pushed'[1][n].res = "raise"
       IN <<pubs, hev, wire, calls, bcast, pushed, emitted, event_history,
            notifications>>' #
          <<pubs, hev, wire, calls, bcast, pushed, emitted, event_history,
            notifications>> =>
             /\ subscribers' = subscribers
             /\ endpoints' = endpoints
             /\ session' = session
             /\ connections' # connections =>
                   /\ raised
                   /\ connections' =
                         SelectSeq(connections, LAMBDA c : c.user # pushed[1][n].user)]_vars

\* A publish has returned after its event was posted to an endpoint, made
\* a notification and was pushed to a connection whose send raised: the
\* three dispatchers are still subscribed to its type.
C40_Witness ==
    /\ pubs[1].pc = "returned"
    /\ wire[1] # <<>>
    /\ \E k \in 1..Len(notifications) : notifications[k].event_id = pubs[1].event.id
    /\ \E i \in 1..Len(pushed[1]) : pushed[1][i].res = "raise"
    /\ subscribers[pubs[1].event.type] = GlobalSubscribers(pubs[1].event.type)
    /\ endpoints # <<>>

====
